---- MODULE Spec2Model ----
(***************************************************************************)
(* FVGridMaker error-handling core: the copy-on-write configuration        *)
(* singleton (ErrorConfig.h), the thread-local buffering logger and the    *)
(* ErrorManager facade (ErrorManager.h), the dispatch/rendering function   *)
(* detail::log_error (Detail.h), the FVG_ERROR and FVG_ASSERT macros       *)
(* (Macros.h), the error domains Core, File and Grid with their traits     *)
(* (CoreErrors.h, FileErrors.h, GridErrors.h) and the error codes          *)
(* (ErrorTraits.h).                                                        *)
(*                                                                         *)
(* Strings are sequences of one-character strings.  Snapshots live in a    *)
(* heap of cells addressed by shared_ptr values; a cell is destroyed when  *)
(* its last reference is dropped.  Every thread executes calls as a        *)
(* sequence of steps; the configuration mutex is a variable of its own.    *)
(* Timestamps of ErrorRecord are not modelled.                             *)
(***************************************************************************)
EXTENDS Integers, Sequences, FiniteSets, TLC

\* ------------------------------------------------------------------------
\* Bounds of the model
\* ------------------------------------------------------------------------
NumThreads == 2
MaxSnap == 3
MaxOps == 2
MaxLogOps == 3

Threads == 1..NumThreads
SnapIds == 1..MaxSnap
Null == 0

\* ------------------------------------------------------------------------
\* Severity.h, Language.h, ErrorConfig.h: enumerations
\* ------------------------------------------------------------------------
Trace == 0
Debug == 1
Info == 2
Warning == 3
Error == 4
Fatal == 5
Severity == Trace..Fatal

Language == {"EnUS", "PtBR"}
Policy == {"Throw", "Status"}

\* Loggers a configuration can reference: none (null shared_ptr), a
\* ThreadLocalBufferLogger, a custom IErrorLogger that keeps the inherited
\* flush(), or the MockLogger instance (a custom logger with a vector of its
\* own).
LoggerRefs == {"null", "tl", "sink", "mock"}

DefaultCap == 256

\* ------------------------------------------------------------------------
\* Message templates of the Core domain (CoreErrors.h) as character
\* sequences
\* ------------------------------------------------------------------------
K_InvalidArgument ==
    <<"C", "O", "R", "E", "_", "I", "N", "V", "A", "L", "I", "D", "_", "A",
      "R", "G", "U", "M", "E", "N", "T">>
EN_InvalidArgument ==
    <<"I", "n", "v", "a", "l", "i", "d", " ", "a", "r", "g", "u", "m", "e",
      "n", "t", ":", " ", "{", "n", "a", "m", "e", "}", ".">>
PT_InvalidArgument ==
    <<"A", "r", "g", "u", "m", "e", "n", "t", "o", " ", "i", "n", "v", "á",
      "l", "i", "d", "o", ":", " ", "{", "n", "a", "m", "e", "}", ".">>
K_OutOfRange ==
    <<"C", "O", "R", "E", "_", "O", "U", "T", "_", "O", "F", "_", "R", "A",
      "N", "G", "E">>
EN_OutOfRange ==
    <<"I", "n", "d", "e", "x", " ", "o", "u", "t", " ", "o", "f", " ", "r",
      "a", "n", "g", "e", ":", " ", "{", "i", "n", "d", "e", "x", "}", ".">>
PT_OutOfRange ==
    <<"Í", "n", "d", "i", "c", "e", " ", "f", "o", "r", "a", " ", "d", "o",
      " ", "i", "n", "t", "e", "r", "v", "a", "l", "o", ":", " ", "{", "i",
      "n", "d", "e", "x", "}", ".">>
K_NotImplemented ==
    <<"C", "O", "R", "E", "_", "N", "O", "T", "_", "I", "M", "P", "L", "E",
      "M", "E", "N", "T", "E", "D">>
EN_NotImplemented ==
    <<"F", "e", "a", "t", "u", "r", "e", " ", "n", "o", "t", " ", "i", "m",
      "p", "l", "e", "m", "e", "n", "t", "e", "d", ".">>
PT_NotImplemented ==
    <<"R", "e", "c", "u", "r", "s", "o", " ", "n", "ã", "o", " ", "i", "m",
      "p", "l", "e", "m", "e", "n", "t", "a", "d", "o", ".">>
K_AssertFailed ==
    <<"C", "O", "R", "E", "_", "A", "S", "S", "E", "R", "T", "_", "F", "A",
      "I", "L", "E", "D">>
EN_AssertFailed ==
    <<"A", "s", "s", "e", "r", "t", "i", "o", "n", " ", "f", "a", "i", "l",
      "e", "d", ".">>
PT_AssertFailed ==
    <<"F", "a", "l", "h", "a", " ", "d", "e", " ", "a", "s", "s", "e", "r",
      "ç", "ã", "o", ".">>
K_InconsistentGeometry ==
    <<"C", "O", "R", "E", "_", "I", "N", "C", "O", "N", "S", "I", "S", "T",
      "E", "N", "T", "_", "G", "E", "O", "M", "E", "T", "R", "Y">>
EN_InconsistentGeometry ==
    <<"G", "e", "o", "m", "e", "t", "r", "i", "c", " ", "i", "n", "c", "o",
      "n", "s", "i", "s", "t", "e", "n", "c", "y", " ", "d", "e", "t", "e",
      "c", "t", "e", "d", ":", " ", "{", "d", "e", "t", "a", "i", "l", "s",
      "}", ".">>
PT_InconsistentGeometry ==
    <<"I", "n", "c", "o", "n", "s", "i", "s", "t", "ê", "n", "c", "i", "a",
      " ", "g", "e", "o", "m", "é", "t", "r", "i", "c", "a", " ", "d", "e",
      "t", "e", "c", "t", "a", "d", "a", ":", " ", "{", "d", "e", "t", "a",
      "i", "l", "s", "}", ".">>
FallbackMessage ==
    <<"E", "r", "r", "o", " ", "g", "r", "a", "v", "e", " ", "l", "a", "n",
      "ç", "a", "d", "o", " ", "(", "v", "e", "r", "i", "f", "i", "q", "u",
      "e", " ", "l", "o", "g", "/", "s", "e", "v", "e", "r", "i", "d", "a",
      "d", "e", ")">>

\* ------------------------------------------------------------------------
\* CoreErrors.h: the Core domain
\* ------------------------------------------------------------------------
CoreDomainId == 1
CoreMin == 1
CoreMax == 5

\* Variant: an unknown value reports severity Warning
EmptyInfoWarning ==
    [key |-> << >>, severity |-> Warning, enUS |-> << >>, ptBR |-> << >>]

\* {sv{}, Severity::Trace, sv{}, sv{}}
EmptyInfo == [key |-> << >>, severity |-> Trace, enUS |-> << >>, ptBR |-> << >>]

\* get_core_error_info_data: the switch over the declared enumerators
get_core_error_info_data(e) ==
    CASE e = 1 -> [key |-> K_InvalidArgument, severity |-> Error,
                   enUS |-> EN_InvalidArgument, ptBR |-> PT_InvalidArgument]
      [] e = 2 -> [key |-> K_OutOfRange, severity |-> Error,
                   enUS |-> EN_OutOfRange, ptBR |-> PT_OutOfRange]
      [] e = 3 -> [key |-> K_NotImplemented, severity |-> Warning,
                   enUS |-> EN_NotImplemented, ptBR |-> PT_NotImplemented]
      [] e = 4 -> [key |-> K_AssertFailed, severity |-> Fatal,
                   enUS |-> EN_AssertFailed, ptBR |-> PT_AssertFailed]
      [] e = 5 -> [key |-> K_InconsistentGeometry, severity |-> Error,
                   enUS |-> EN_InconsistentGeometry,
                   ptBR |-> PT_InconsistentGeometry]
      [] OTHER -> EmptyInfo

\* get_core_info: range check in front of the table
get_core_info(e) ==
    IF e >= CoreMin /\ e <= CoreMax THEN get_core_error_info_data(e)
    ELSE EmptyInfo

\* ErrorTraits<CoreErr>
default_severity(e) == get_core_info(e).severity
enUS(e) == get_core_info(e).enUS
ptBR(e) == get_core_info(e).ptBR

\* ------------------------------------------------------------------------
\* FileErrors.h: the File domain
\* ------------------------------------------------------------------------
K_FileNotFound ==
    <<"F", "I", "L", "E", "_", "N", "O", "T", "_", "F", "O", "U", "N", "D">>
EN_FileNotFound ==
    <<"F", "i", "l", "e", " ", "n", "o", "t", " ", "f", "o", "u", "n", "d",
      ":", " ", "{", "p", "a", "t", "h", "}", ".">>
PT_FileNotFound ==
    <<"A", "r", "q", "u", "i", "v", "o", " ", "n", "ã", "o", " ", "e", "n",
      "c", "o", "n", "t", "r", "a", "d", "o", ":", " ", "{", "p", "a", "t",
      "h", "}", ".">>
K_AccessDenied ==
    <<"F", "I", "L", "E", "_", "A", "C", "C", "E", "S", "S", "_", "D", "E",
      "N", "I", "E", "D">>
EN_AccessDenied ==
    <<"A", "c", "c", "e", "s", "s", " ", "d", "e", "n", "i", "e", "d", " ",
      "t", "o", " ", "f", "i", "l", "e", ":", " ", "{", "p", "a", "t", "h",
      "}", ".">>
PT_AccessDenied ==
    <<"A", "c", "e", "s", "s", "o", " ", "n", "e", "g", "a", "d", "o", " ",
      "a", "o", " ", "a", "r", "q", "u", "i", "v", "o", ":", " ", "{", "p",
      "a", "t", "h", "}", ".">>
K_ReadError ==
    <<"F", "I", "L", "E", "_", "R", "E", "A", "D", "_", "E", "R", "R", "O",
      "R">>
EN_ReadError ==
    <<"A", "n", " ", "e", "r", "r", "o", "r", " ", "o", "c", "c", "u", "r",
      "r", "e", "d", " ", "w", "h", "i", "l", "e", " ", "r", "e", "a", "d",
      "i", "n", "g", " ", "t", "h", "e", " ", "f", "i", "l", "e", ":", " ",
      "{", "p", "a", "t", "h", "}", ".">>
PT_ReadError ==
    <<"O", "c", "o", "r", "r", "e", "u", " ", "u", "m", " ", "e", "r", "r",
      "o", " ", "a", "o", " ", "l", "e", "r", " ", "o", " ", "a", "r", "q",
      "u", "i", "v", "o", ":", " ", "{", "p", "a", "t", "h", "}", ".">>
K_WriteError ==
    <<"F", "I", "L", "E", "_", "W", "R", "I", "T", "E", "_", "E", "R", "R",
      "O", "R">>
EN_WriteError ==
    <<"A", "n", " ", "e", "r", "r", "o", "r", " ", "o", "c", "c", "u", "r",
      "r", "e", "d", " ", "w", "h", "i", "l", "e", " ", "w", "r", "i", "t",
      "i", "n", "g", " ", "t", "o", " ", "t", "h", "e", " ", "f", "i", "l",
      "e", ":", " ", "{", "p", "a", "t", "h", "}", ".">>
PT_WriteError ==
    <<"O", "c", "o", "r", "r", "e", "u", " ", "u", "m", " ", "e", "r", "r",
      "o", " ", "a", "o", " ", "e", "s", "c", "r", "e", "v", "e", "r", " ",
      "n", "o", " ", "a", "r", "q", "u", "i", "v", "o", ":", " ", "{", "p",
      "a", "t", "h", "}", ".">>
K_InvalidPath ==
    <<"F", "I", "L", "E", "_", "I", "N", "V", "A", "L", "I", "D", "_", "P",
      "A", "T", "H">>
EN_InvalidPath ==
    <<"T", "h", "e", " ", "p", "r", "o", "v", "i", "d", "e", "d", " ", "p",
      "a", "t", "h", " ", "i", "s", " ", "i", "n", "v", "a", "l", "i", "d",
      ":", " ", "{", "p", "a", "t", "h", "}", ".">>
PT_InvalidPath ==
    <<"O", " ", "c", "a", "m", "i", "n", "h", "o", " ", "f", "o", "r", "n",
      "e", "c", "i", "d", "o", " ", "é", " ", "i", "n", "v", "á", "l", "i",
      "d", "o", ":", " ", "{", "p", "a", "t", "h", "}", ".">>

\* Variant: the File domain reuses the id of the Core domain
FileDomainIdOfCore == CoreDomainId

FileDomainId == 2
FileMin == 1
FileMax == 5

\* get_file_error_info_data: the switch over the declared enumerators
get_file_error_info_data(e) ==
    CASE e = 1 -> [key |-> K_FileNotFound, severity |-> Error,
                    enUS |-> EN_FileNotFound, ptBR |-> PT_FileNotFound]
      [] e = 2 -> [key |-> K_AccessDenied, severity |-> Error,
                    enUS |-> EN_AccessDenied, ptBR |-> PT_AccessDenied]
      [] e = 3 -> [key |-> K_ReadError, severity |-> Error,
                    enUS |-> EN_ReadError, ptBR |-> PT_ReadError]
      [] e = 4 -> [key |-> K_WriteError, severity |-> Error,
                    enUS |-> EN_WriteError, ptBR |-> PT_WriteError]
      [] e = 5 -> [key |-> K_InvalidPath, severity |-> Error,
                    enUS |-> EN_InvalidPath, ptBR |-> PT_InvalidPath]
      [] OTHER -> EmptyInfo

\* get_file_info: range check in front of the table
get_file_info(e) ==
    IF e >= FileMin /\ e <= FileMax THEN get_file_error_info_data(e)
    ELSE EmptyInfo

\* ------------------------------------------------------------------------
\* GridErrors.h: the Grid domain
\* ------------------------------------------------------------------------
K_InvalidN ==
    <<"G", "R", "I", "D", "_", "I", "N", "V", "A", "L", "I", "D", "_", "N">>
EN_InvalidN ==
    <<"I", "n", "v", "a", "l", "i", "d", " ", "n", "u", "m", "b", "e", "r",
      " ", "o", "f", " ", "v", "o", "l", "u", "m", "e", "s", " ", "N", ":",
      " ", "{", "N", "}", " ", "(", "m", "u", "s", "t", " ", "b", "e", " ",
      ">", " ", "0", ")", ".">>
PT_InvalidN ==
    <<"N", "ú", "m", "e", "r", "o", " ", "d", "e", " ", "v", "o", "l", "u",
      "m", "e", "s", " ", "N", " ", "i", "n", "v", "á", "l", "i", "d", "o",
      ":", " ", "{", "N", "}", " ", "(", "d", "e", "v", "e", " ", "s", "e",
      "r", " ", ">", " ", "0", ")", ".">>
K_InvalidDomain ==
    <<"G", "R", "I", "D", "_", "I", "N", "V", "A", "L", "I", "D", "_", "D",
      "O", "M", "A", "I", "N">>
EN_InvalidDomain ==
    <<"I", "n", "v", "a", "l", "i", "d", " ", "d", "o", "m", "a", "i", "n",
      ":", " ", "B", " ", "<", "=", " ", "A", " ", "(", "A", "=", "{", "A",
      "}", ",", " ", "B", "=", "{", "B", "}", ")", ".">>
PT_InvalidDomain ==
    <<"D", "o", "m", "í", "n", "i", "o", " ", "i", "n", "v", "á", "l", "i",
      "d", "o", ":", " ", "B", " ", "<", "=", " ", "A", " ", "(", "A", "=",
      "{", "A", "}", ",", " ", "B", "=", "{", "B", "}", ")", ".">>
K_InvalidCentering ==
    <<"G", "R", "I", "D", "_", "I", "N", "V", "A", "L", "I", "D", "_", "C",
      "E", "N", "T", "E", "R", "I", "N", "G">>
EN_InvalidCentering ==
    <<"U", "n", "s", "u", "p", "p", "o", "r", "t", "e", "d", " ", "o", "r",
      " ", "u", "n", "k", "n", "o", "w", "n", " ", "c", "e", "n", "t", "e",
      "r", "i", "n", "g", ":", " ", "{", "c", "e", "n", "t", "e", "r", "}",
      ".">>
PT_InvalidCentering ==
    <<"C", "e", "n", "t", "e", "r", "i", "n", "g", " ", "d", "e", "s", "c",
      "o", "n", "h", "e", "c", "i", "d", "o", " ", "o", "u", " ", "n", "ã",
      "o", " ", "s", "u", "p", "o", "r", "t", "a", "d", "o", ":", " ", "{",
      "c", "e", "n", "t", "e", "r", "}", ".">>
K_InvalidDistribution ==
    <<"G", "R", "I", "D", "_", "I", "N", "V", "A", "L", "I", "D", "_", "D",
      "I", "S", "T", "R", "I", "B", "U", "T", "I", "O", "N">>
EN_InvalidDistribution ==
    <<"U", "n", "s", "u", "p", "p", "o", "r", "t", "e", "d", " ", "o", "r",
      " ", "u", "n", "k", "n", "o", "w", "n", " ", "d", "i", "s", "t", "r",
      "i", "b", "u", "t", "i", "o", "n", ":", " ", "{", "d", "i", "s", "t",
      "}", ".">>
PT_InvalidDistribution ==
    <<"D", "i", "s", "t", "r", "i", "b", "u", "i", "ç", "ã", "o", " ", "d",
      "e", "s", "c", "o", "n", "h", "e", "c", "i", "d", "a", " ", "o", "u",
      " ", "n", "ã", "o", " ", "s", "u", "p", "o", "r", "t", "a", "d", "a",
      ":", " ", "{", "d", "i", "s", "t", "}", ".">>
K_MissingOptions ==
    <<"G", "R", "I", "D", "_", "M", "I", "S", "S", "I", "N", "G", "_", "O",
      "P", "T", "I", "O", "N", "S">>
EN_MissingOptions ==
    <<"R", "e", "q", "u", "i", "r", "e", "d", " ", "d", "i", "s", "t", "r",
      "i", "b", "u", "t", "i", "o", "n", " ", "o", "p", "t", "i", "o", "n",
      "s", " ", "a", "r", "e", " ", "m", "i", "s", "s", "i", "n", "g", " ",
      "f", "o", "r", " ", "{", "d", "i", "s", "t", "}", ".">>
PT_MissingOptions ==
    <<"O", "p", "ç", "õ", "e", "s", " ", "o", "b", "r", "i", "g", "a", "t",
      "ó", "r", "i", "a", "s", " ", "d", "a", " ", "d", "i", "s", "t", "r",
      "i", "b", "u", "i", "ç", "ã", "o", " ", "a", "u", "s", "e", "n", "t",
      "e", "s", " ", "p", "a", "r", "a", " ", "{", "d", "i", "s", "t", "}",
      ".">>
K_OptionsOutOfRange ==
    <<"G", "R", "I", "D", "_", "O", "P", "T", "I", "O", "N", "S", "_", "O",
      "U", "T", "_", "O", "F", "_", "R", "A", "N", "G", "E">>
EN_OptionsOutOfRange ==
    <<"D", "i", "s", "t", "r", "i", "b", "u", "t", "i", "o", "n", " ", "o",
      "p", "t", "i", "o", "n", "s", " ", "o", "u", "t", " ", "o", "f", " ",
      "v", "a", "l", "i", "d", " ", "r", "a", "n", "g", "e", " ", "(", "e",
      ".", "g", ".", ",", " ", "w", "_", "l", "o", "=", "{", "w", "_", "l",
      "o", "}", ",", " ", "w", "_", "h", "i", "=", "{", "w", "_", "h", "i",
      "}", ")", ".">>
PT_OptionsOutOfRange ==
    <<"O", "p", "ç", "õ", "e", "s", " ", "d", "a", " ", "d", "i", "s", "t",
      "r", "i", "b", "u", "i", "ç", "ã", "o", " ", "f", "o", "r", "a", " ",
      "d", "a", " ", "f", "a", "i", "x", "a", " ", "v", "á", "l", "i", "d",
      "a", " ", "(", "e", "x", ".", ":", " ", "w", "_", "l", "o", "=", "{",
      "w", "_", "l", "o", "}", ",", " ", "w", "_", "h", "i", "=", "{", "w",
      "_", "h", "i", "}", ")", ".">>
K_DegenerateMesh ==
    <<"G", "R", "I", "D", "_", "D", "E", "G", "E", "N", "E", "R", "A", "T",
      "E", "_", "M", "E", "S", "H">>
EN_DegenerateMesh ==
    <<"D", "e", "g", "e", "n", "e", "r", "a", "t", "e", " ", "m", "e", "s",
      "h", ":", " ", "a", "t", " ", "l", "e", "a", "s", "t", " ", "o", "n",
      "e", " ", "c", "e", "l", "l", " ", "s", "i", "z", "e", " ", "i", "s",
      " ", "n", "o", "n", "-", "p", "o", "s", "i", "t", "i", "v", "e", ".">>
PT_DegenerateMesh ==
    <<"M", "a", "l", "h", "a", " ", "d", "e", "g", "e", "n", "e", "r", "a",
      "d", "a", ":", " ", "a", "o", " ", "m", "e", "n", "o", "s", " ", "u",
      "m", " ", "t", "a", "m", "a", "n", "h", "o", " ", "d", "e", " ", "c",
      "é", "l", "u", "l", "a", " ", "é", " ", "n", "ã", "o", "-", "p", "o",
      "s", "i", "t", "i", "v", "o", ".">>
K_NonIncreasingFaces ==
    <<"G", "R", "I", "D", "_", "N", "O", "N", "_", "I", "N", "C", "R", "E",
      "A", "S", "I", "N", "G", "_", "F", "A", "C", "E", "S">>
EN_NonIncreasingFaces ==
    <<"F", "a", "c", "e", "s", " ", "m", "u", "s", "t", " ", "b", "e", " ",
      "s", "t", "r", "i", "c", "t", "l", "y", " ", "i", "n", "c", "r", "e",
      "a", "s", "i", "n", "g", ";", " ", "v", "i", "o", "l", "a", "t", "i",
      "o", "n", " ", "a", "t", " ", "i", "n", "d", "e", "x", " ", "{", "i",
      "}", ".">>
PT_NonIncreasingFaces ==
    <<"F", "a", "c", "e", "s", " ", "d", "e", "v", "e", "m", " ", "s", "e",
      "r", " ", "e", "s", "t", "r", "i", "t", "a", "m", "e", "n", "t", "e",
      " ", "c", "r", "e", "s", "c", "e", "n", "t", "e", "s", ";", " ", "v",
      "i", "o", "l", "a", "ç", "ã", "o", " ", "n", "o", " ", "í", "n", "d",
      "i", "c", "e", " ", "{", "i", "}", ".">>
K_NonIncreasingCenters ==
    <<"G", "R", "I", "D", "_", "N", "O", "N", "_", "I", "N", "C", "R", "E",
      "A", "S", "I", "N", "G", "_", "C", "E", "N", "T", "E", "R", "S">>
EN_NonIncreasingCenters ==
    <<"C", "e", "n", "t", "e", "r", "s", " ", "m", "u", "s", "t", " ", "b",
      "e", " ", "s", "t", "r", "i", "c", "t", "l", "y", " ", "i", "n", "c",
      "r", "e", "a", "s", "i", "n", "g", ";", " ", "v", "i", "o", "l", "a",
      "t", "i", "o", "n", " ", "a", "t", " ", "i", "n", "d", "e", "x", " ",
      "{", "i", "}", ".">>
PT_NonIncreasingCenters ==
    <<"C", "e", "n", "t", "r", "o", "s", " ", "d", "e", "v", "e", "m", " ",
      "s", "e", "r", " ", "e", "s", "t", "r", "i", "t", "a", "m", "e", "n",
      "t", "e", " ", "c", "r", "e", "s", "c", "e", "n", "t", "e", "s", ";",
      " ", "v", "i", "o", "l", "a", "ç", "ã", "o", " ", "n", "o", " ", "í",
      "n", "d", "i", "c", "e", " ", "{", "i", "}", ".">>
K_NaNCoordinate ==
    <<"G", "R", "I", "D", "_", "N", "A", "N", "_", "C", "O", "O", "R", "D",
      "I", "N", "A", "T", "E">>
EN_NaNCoordinate ==
    <<"C", "o", "o", "r", "d", "i", "n", "a", "t", "e", " ", "h", "a", "s",
      " ", "N", "a", "N", " ", "a", "t", " ", "i", "n", "d", "e", "x", " ",
      "{", "i", "}", ".">>
PT_NaNCoordinate ==
    <<"C", "o", "o", "r", "d", "e", "n", "a", "d", "a", " ", "c", "o", "m",
      " ", "N", "a", "N", " ", "n", "o", " ", "í", "n", "d", "i", "c", "e",
      " ", "{", "i", "}", ".">>
K_InfCoordinate ==
    <<"G", "R", "I", "D", "_", "I", "N", "F", "_", "C", "O", "O", "R", "D",
      "I", "N", "A", "T", "E">>
EN_InfCoordinate ==
    <<"C", "o", "o", "r", "d", "i", "n", "a", "t", "e", " ", "h", "a", "s",
      " ", "+", "/", "-", "i", "n", "f", " ", "a", "t", " ", "i", "n", "d",
      "e", "x", " ", "{", "i", "}", ".">>
PT_InfCoordinate ==
    <<"C", "o", "o", "r", "d", "e", "n", "a", "d", "a", " ", "c", "o", "m",
      " ", "+", "/", "-", "i", "n", "f", " ", "n", "o", " ", "í", "n", "d",
      "i", "c", "e", " ", "{", "i", "}", ".">>
K_ExecPolicyUnsupported ==
    <<"G", "R", "I", "D", "_", "E", "X", "E", "C", "_", "P", "O", "L", "I",
      "C", "Y", "_", "U", "N", "S", "U", "P", "P", "O", "R", "T", "E", "D">>
EN_ExecPolicyUnsupported ==
    <<"R", "e", "q", "u", "e", "s", "t", "e", "d", " ", "e", "x", "e", "c",
      "u", "t", "i", "o", "n", " ", "p", "o", "l", "i", "c", "y", " ", "i",
      "s", " ", "u", "n", "s", "u", "p", "p", "o", "r", "t", "e", "d", ";",
      " ", "f", "a", "l", "l", "i", "n", "g", " ", "b", "a", "c", "k", " ",
      "t", "o", " ", "s", "e", "r", "i", "a", "l", ".">>
PT_ExecPolicyUnsupported ==
    <<"P", "o", "l", "í", "t", "i", "c", "a", " ", "d", "e", " ", "e", "x",
      "e", "c", "u", "ç", "ã", "o", " ", "s", "o", "l", "i", "c", "i", "t",
      "a", "d", "a", " ", "n", "ã", "o", " ", "s", "u", "p", "o", "r", "t",
      "a", "d", "a", ";", " ", "r", "e", "t", "o", "r", "n", "a", "n", "d",
      "o", " ", "a", "o", " ", "m", "o", "d", "o", " ", "s", "e", "r", "i",
      "a", "l", ".">>
K_ParallelBackendMissing ==
    <<"G", "R", "I", "D", "_", "P", "A", "R", "_", "B", "A", "C", "K", "E",
      "N", "D", "_", "M", "I", "S", "S", "I", "N", "G">>
EN_ParallelBackendMissing ==
    <<"P", "a", "r", "a", "l", "l", "e", "l", " ", "e", "x", "e", "c", "u",
      "t", "i", "o", "n", " ", "r", "e", "q", "u", "e", "s", "t", "e", "d",
      " ", "b", "u", "t", " ", "b", "a", "c", "k", "e", "n", "d", " ", "i",
      "s", " ", "m", "i", "s", "s", "i", "n", "g", " ", "(", "e", ".", "g",
      ".", ",", " ", "T", "B", "B", ")", ".">>
PT_ParallelBackendMissing ==
    <<"E", "x", "e", "c", "u", "ç", "ã", "o", " ", "p", "a", "r", "a", "l",
      "e", "l", "a", " ", "s", "o", "l", "i", "c", "i", "t", "a", "d", "a",
      ",", " ", "m", "a", "s", " ", "o", " ", "b", "a", "c", "k", "e", "n",
      "d", " ", "e", "s", "t", "á", " ", "a", "u", "s", "e", "n", "t", "e",
      " ", "(", "e", "x", ".", ":", " ", "T", "B", "B", ")", ".">>
K_BuilderStateInvalid ==
    <<"G", "R", "I", "D", "_", "B", "U", "I", "L", "D", "E", "R", "_", "S",
      "T", "A", "T", "E", "_", "I", "N", "V", "A", "L", "I", "D">>
EN_BuilderStateInvalid ==
    <<"G", "r", "i", "d", "1", "D", "B", "u", "i", "l", "d", "e", "r", " ",
      "u", "s", "e", "d", " ", "i", "n", " ", "a", "n", " ", "i", "n", "v",
      "a", "l", "i", "d", " ", "o", "r", " ", "i", "n", "c", "o", "m", "p",
      "l", "e", "t", "e", " ", "s", "t", "a", "t", "e", ".">>
PT_BuilderStateInvalid ==
    <<"G", "r", "i", "d", "1", "D", "B", "u", "i", "l", "d", "e", "r", " ",
      "u", "s", "a", "d", "o", " ", "e", "m", " ", "e", "s", "t", "a", "d",
      "o", " ", "i", "n", "v", "á", "l", "i", "d", "o", " ", "o", "u", " ",
      "i", "n", "c", "o", "m", "p", "l", "e", "t", "o", ".">>

GridDomainId == 3
GridMin == 1
GridMax == 14

\* get_grid_error_info_data: the switch over the declared enumerators
get_grid_error_info_data(e) ==
    CASE e = 1 -> [key |-> K_InvalidN, severity |-> Error,
                    enUS |-> EN_InvalidN, ptBR |-> PT_InvalidN]
      [] e = 2 -> [key |-> K_InvalidDomain, severity |-> Error,
                    enUS |-> EN_InvalidDomain, ptBR |-> PT_InvalidDomain]
      [] e = 3 -> [key |-> K_InvalidCentering, severity |-> Error,
                    enUS |-> EN_InvalidCentering, ptBR |-> PT_InvalidCentering]
      [] e = 4 -> [key |-> K_InvalidDistribution, severity |-> Error,
                    enUS |-> EN_InvalidDistribution, ptBR |-> PT_InvalidDistribution]
      [] e = 5 -> [key |-> K_MissingOptions, severity |-> Error,
                    enUS |-> EN_MissingOptions, ptBR |-> PT_MissingOptions]
      [] e = 6 -> [key |-> K_OptionsOutOfRange, severity |-> Error,
                    enUS |-> EN_OptionsOutOfRange, ptBR |-> PT_OptionsOutOfRange]
      [] e = 7 -> [key |-> K_DegenerateMesh, severity |-> Error,
                    enUS |-> EN_DegenerateMesh, ptBR |-> PT_DegenerateMesh]
      [] e = 8 -> [key |-> K_NonIncreasingFaces, severity |-> Error,
                    enUS |-> EN_NonIncreasingFaces, ptBR |-> PT_NonIncreasingFaces]
      [] e = 9 -> [key |-> K_NonIncreasingCenters, severity |-> Error,
                    enUS |-> EN_NonIncreasingCenters, ptBR |-> PT_NonIncreasingCenters]
      [] e = 10 -> [key |-> K_NaNCoordinate, severity |-> Error,
                    enUS |-> EN_NaNCoordinate, ptBR |-> PT_NaNCoordinate]
      [] e = 11 -> [key |-> K_InfCoordinate, severity |-> Error,
                    enUS |-> EN_InfCoordinate, ptBR |-> PT_InfCoordinate]
      [] e = 12 -> [key |-> K_ExecPolicyUnsupported, severity |-> Warning,
                    enUS |-> EN_ExecPolicyUnsupported, ptBR |-> PT_ExecPolicyUnsupported]
      [] e = 13 -> [key |-> K_ParallelBackendMissing, severity |-> Warning,
                    enUS |-> EN_ParallelBackendMissing, ptBR |-> PT_ParallelBackendMissing]
      [] e = 14 -> [key |-> K_BuilderStateInvalid, severity |-> Error,
                    enUS |-> EN_BuilderStateInvalid, ptBR |-> PT_BuilderStateInvalid]
      [] OTHER -> EmptyInfo

\* get_grid_info: range check in front of the table
get_grid_info(e) ==
    IF e >= GridMin /\ e <= GridMax THEN get_grid_error_info_data(e)
    ELSE EmptyInfo

\* ------------------------------------------------------------------------
\* ErrorTraits<E> of the three built-in domains, E given by name
\* ------------------------------------------------------------------------
Domains == {"Core", "File", "Grid"}

domain_id(E) ==
    CASE E = "Core" -> CoreDomainId
      [] E = "File" -> FileDomainId
      [] E = "Grid" -> GridDomainId

DomainMin(E) ==
    CASE E = "Core" -> CoreMin [] E = "File" -> FileMin [] E = "Grid" -> GridMin

DomainMax(E) ==
    CASE E = "Core" -> CoreMax [] E = "File" -> FileMax [] E = "Grid" -> GridMax

\* detail::get_core_info, get_file_info, get_grid_info
get_info(E, e) ==
    CASE E = "Core" -> get_core_info(e)
      [] E = "File" -> get_file_info(e)
      [] E = "Grid" -> get_grid_info(e)

\* ------------------------------------------------------------------------
\* ErrorTraits.h: make_code and code, on unsigned 32-bit integers
\* ------------------------------------------------------------------------
\* A std::uint32_t is a pair <<high 16 bits, low 16 bits>>
Pow2_16 == 65536

RECURSIVE BitOr(_, _)
BitOr(a, b) ==
    IF a = 0 THEN b
    ELSE IF b = 0 THEN a
    ELSE (IF a % 2 = 1 \/ b % 2 = 1 THEN 1 ELSE 0)
         + 2 * BitOr(a \div 2, b \div 2)

\* Variant: the 16-bit value is widened with its top bit as sign
ToS32(x) == <<IF x % Pow2_16 >= 32768 THEN Pow2_16 - 1 ELSE 0, x % Pow2_16>>

\* static_cast<std::uint32_t>(x) of a std::uint16_t: zero extension
ToU32(x) == <<0, x % Pow2_16>>

\* w << 16 on 32 bits: the high half is shifted out
ShiftLeft16(w) == <<w[2], 0>>

\* a | b on 32 bits
Or32(a, b) == <<BitOr(a[1], b[1]), BitOr(a[2], b[2])>>

\* w >> 16 on 32 bits, as in (e.code() >> 16) of the example program
ShiftRight16(w) == <<0, w[1]>>

make_code(domain, value) == Or32(ShiftLeft16(ToU32(domain)), ToU32(value))

code(e) == make_code(CoreDomainId, e)

\* code(e) for an error value e of domain E
code_of(E, e) == make_code(domain_id(E), e)

\* ------------------------------------------------------------------------
\* Detail.h: placeholder substitution of log_error (std::string::find and
\* std::string::replace on 0-based positions)
\* ------------------------------------------------------------------------
npos == -1

\* "{" + k + "}"
Token(k) == <<"{">> \o k \o <<"}">>

MatchAt(s, tok, i) ==
    /\ i + Len(tok) <= Len(s)
    /\ \A j \in 1..Len(tok) : s[i + j] = tok[j]

\* s.find(tok, pos)
Find(s, tok, pos) ==
    LET hits == {i \in pos..(Len(s) - Len(tok)) : MatchAt(s, tok, i)}
    IN IF hits = {} THEN npos
       ELSE CHOOSE i \in hits : \A j \in hits : i <= j

\* s.replace(pos, n, v)
Replace(s, pos, n, v) ==
    SubSeq(s, 1, pos) \o v \o SubSeq(s, pos + n + 1, Len(s))

\* Variant: the cursor stays at the position found
AdvanceNot(pos, v) == pos

\* Cursor after one replacement at pos: pos += v.size()
Advance(pos, v) == pos + Len(v)

\* Variant: only the first occurrence is replaced
ReplaceFirst(out, tok, v, pos) ==
    LET p == Find(out, tok, pos)
    IN IF p = npos THEN out ELSE Replace(out, p, Len(tok), v)

RECURSIVE ReplaceAll(_, _, _, _)
ReplaceAll(out, tok, v, pos) ==
    LET p == Find(out, tok, pos)
    IN IF p = npos THEN out
       ELSE ReplaceAll(Replace(out, p, Len(tok), v), tok, v, Advance(p, v))

RECURSIVE Substitute(_, _, _)
Substitute(out, kv, i) ==
    IF i > Len(kv) THEN out
    ELSE Substitute(ReplaceAll(out, Token(kv[i][1]), kv[i][2], 0), kv, i + 1)

\* Variant: the language of the configuration is ignored
SelectEnglish(lang, e) == enUS(e)

\* Template selection by language
SelectTemplate(lang, e) == IF lang = "PtBR" THEN ptBR(e) ELSE enUS(e)

\* The rendered message of log_error
Render(lang, e, kv) == Substitute(SelectTemplate(lang, e), kv, 1)

\* ------------------------------------------------------------------------
\* ErrorConfig.h: ErrorConfig values
\* ------------------------------------------------------------------------
MkConfig(l, p, m, c, g) ==
    [language |-> l, policy |-> p, min_severity |-> m,
     thread_buffer_cap |-> c, logger |-> g]

\* Variant: the constructor leaves the logger member empty
DefaultConfigNoLogger == MkConfig("PtBR", "Throw", Warning, DefaultCap, "null")

\* ErrorConfig::ErrorConfig() with the default member initialisers
DefaultConfig == MkConfig("PtBR", "Throw", Warning, DefaultCap, "tl")

\* Content of a heap cell that holds no object
NoCfg == MkConfig("-", "-", 0, 0, "-")

\* ------------------------------------------------------------------------
\* ErrorRecord.h
\* ------------------------------------------------------------------------
MkRecord(c, s, m, t) == [code |-> c, severity |-> s, message |-> m, tid |-> t]
NoRec == MkRecord(<<0, 0>>, Trace, << >>, 0)

\* ------------------------------------------------------------------------
\* ID.hpp, types.hpp: identities
\* ------------------------------------------------------------------------
\* Constructions in one run, and places an ID object can be constructed in
MaxIds == 3
MaxPlaces == 3
Places == 1..MaxPlaces

\* constexpr Index INVALID_INDEX = static_cast<Index>(-1)
INVALID_INDEX == -1

\* A place that holds no object has no valid uid; no move in progress
NoUid == INVALID_INDEX
NoMove == <<0, 0>>

\* Variant: counter++ (the value before the increment)
next_uid_post(c) == c

\* return ++counter: the value after the atomic increment
next_uid(c) == c + 1

\* uid_ != INVALID_INDEX
has_valid_id(u) == u # INVALID_INDEX

\* ------------------------------------------------------------------------
\* State
\* ------------------------------------------------------------------------
VARIABLES
    heap,       \* cell -> ErrorConfig object owned by the shared_ptr values
    ptr_,       \* Config::ptr_
    mtx_,       \* Config::mtx_: 0 when free, else the owning thread
    pc,         \* per thread: the step it executes next
    op,         \* per thread: the call in progress (or the last one)
    ret,        \* per thread: who receives the result of Config::get
    arg,        \* per thread: arguments of the call (and, for FVG_ERROR, the
                \* caller's buffer when the call started)
    loc,        \* per thread: the shared_ptr locals of the call stack
    buf,        \* ThreadLocalBufferLogger::buffer(): tl_buf of each thread
    res,        \* per thread: result of the last ErrorManager::flush
    thrown,     \* per thread: whether the last FVG_ERROR threw
    exc,        \* per thread: the record carried by the exception
    sent,       \* per thread: records handed to logger->log in this call
    obs,        \* per thread: configuration values read in this call
    nops,       \* calls the threads may still start
    seen,       \* per thread: content of the held snapshot when get returned
    issued,     \* configurations passed to Config::set so far
    installed,  \* argument of the Config::set that swapped ptr_ last
    solo,       \* per thread: its Config::set overlaps no other set
    lastSolo,   \* argument of the last set that ran alone and returned
    accepted,   \* per thread: records appended to its buffer, in order
    delivered,  \* per thread: concatenation of its flush results
    tried,      \* per thread: records passed to the logger since last flush
    capAt,      \* per thread: capacity read by the log that appended last
    logs,       \* MockLogger::logs of the custom buffering logger
    input,      \* arguments of the function applied on its own
    output,     \* its result
    counter,    \* ID::next_uid()::counter
    uid_,       \* ID::uid_ of the object in each place
    life,       \* each place: free, under construction, or a live ID object
    owner,      \* each place: the thread that uses the object
    made,       \* per thread: the uids its constructions obtained, in order
    mv          \* per thread: source and target of the move in progress

ctl == <<pc, op, ret, arg, nops>>
outs == <<res, thrown, exc, sent, obs>>
cfgGhost == <<seen, issued, installed, solo, lastSolo>>
bufGhost == <<accepted, delivered, tried, capAt>>
ids == <<counter, uid_, life, owner, made, mv>>
fn == <<input, output, ids>>
errs == <<heap, ptr_, mtx_, loc, buf, ctl, outs, cfgGhost, bufGhost, logs>>
objs == <<errs, ids>>
vars == <<heap, ptr_, mtx_, loc, buf, ctl, outs, cfgGhost, bufGhost, logs, fn>>

NoLoc == [held |-> Null, sp |-> Null, D |-> Null, M |-> Null, L |-> Null,
          E |-> Null]
NoObs == [min_severity |-> -1, language |-> "-", policy |-> "-",
          logger |-> "-", cap |-> -1]
NoArg == [e |-> 0, kv |-> << >>, rec |-> NoRec, cfg |-> NoCfg, cond |-> TRUE,
          pre |-> << >>]

LocFields == {"held", "sp", "D", "M", "L", "E"}

\* Cells some shared_ptr points to
Refs == {ptr_} \cup {loc[t][f] : t \in Threads, f \in LocFields}

\* Destruction of the objects whose last reference went away in this step
Collect(h) == [i \in SnapIds |-> IF i \in Refs' THEN h[i] ELSE NoCfg]

\* No function is applied on its own
NoInput == [f |-> "none"]
NoOutput == << >>

\* Variant: the new configuration is written into the current object
AllocInPlace == ptr_

\* std::make_shared: the cell of the new object
AllocId == CHOOSE i \in SnapIds \ Refs : \A j \in SnapIds \ Refs : i <= j

\* Variant: the copy keeps the logger of a default-constructed ErrorConfig
MakeSharedSliced(cfg) == [cfg EXCEPT !.logger = DefaultConfig.logger]

\* std::make_shared<const ErrorConfig>(std::move(cfg)): the new object
MakeShared(cfg) == cfg

\* The objects when configuration c is current and nothing else happened; n
\* calls may be started
InitObjects(c, n) ==
    /\ heap = [i \in SnapIds |-> IF i = 1 THEN c ELSE NoCfg]
    /\ ptr_ = 1
    /\ mtx_ = 0
    /\ pc = [t \in Threads |-> "idle"]
    /\ op = [t \in Threads |-> "none"]
    /\ ret = [t \in Threads |-> "none"]
    /\ arg = [t \in Threads |-> NoArg]
    /\ loc = [t \in Threads |-> NoLoc]
    /\ buf = [t \in Threads |-> << >>]
    /\ res = [t \in Threads |-> << >>]
    /\ thrown = [t \in Threads |-> FALSE]
    /\ exc = [t \in Threads |-> NoRec]
    /\ sent = [t \in Threads |-> << >>]
    /\ obs = [t \in Threads |-> NoObs]
    /\ nops = n
    /\ seen = [t \in Threads |-> NoCfg]
    /\ issued = {c} \ {DefaultConfig}
    /\ installed = c
    /\ solo = [t \in Threads |-> FALSE]
    /\ lastSolo = NoCfg
    /\ accepted = [t \in Threads |-> << >>]
    /\ delivered = [t \in Threads |-> << >>]
    /\ tried = [t \in Threads |-> << >>]
    /\ capAt = [t \in Threads |-> 0]
    /\ logs = << >>
    /\ counter = 0
    /\ uid_ = [p \in Places |-> NoUid]
    /\ life = [p \in Places |-> "free"]
    /\ owner = [p \in Places |-> 0]
    /\ made = [t \in Threads |-> << >>]
    /\ mv = [t \in Threads |-> NoMove]

\* The same, with no function applied on its own
InitWith(c, n) ==
    /\ InitObjects(c, n)
    /\ input = NoInput
    /\ output = NoOutput

\* Config::Config(): the singleton starts with a default ErrorConfig
Init == InitWith(DefaultConfig, MaxOps)

\* A call starts: results of the previous call are forgotten
Begin(t, o, a) ==
    /\ pc[t] = "idle"
    /\ nops > 0
    /\ nops' = nops - 1
    /\ op' = [op EXCEPT ![t] = o]
    /\ arg' = [arg EXCEPT ![t] = a]
    /\ res' = [res EXCEPT ![t] = << >>]
    /\ thrown' = [thrown EXCEPT ![t] = FALSE]
    /\ exc' = [exc EXCEPT ![t] = NoRec]
    /\ sent' = [sent EXCEPT ![t] = << >>]
    /\ obs' = [obs EXCEPT ![t] = NoObs]
    /\ UNCHANGED <<fn, logs>>

InSet(t) == pc[t] \in {"set_make", "set_lock", "set_store"}

\* ------------------------------------------------------------------------
\* Config::get (ErrorConfig.h)
\* ------------------------------------------------------------------------
\* The variable that receives the snapshot, and the step after the call
GetTarget(r) ==
    CASE r = "user" -> "held"
      [] r = "detail" -> "D"
      [] r = "mgr_log" -> "M"
      [] r = "mgr_flush" -> "M"
      [] r = "tl_log" -> "L"
      [] r = "macro" -> "E"

GetCont(r) ==
    CASE r = "user" -> "idle"
      [] r = "detail" -> "detail_filter"
      [] r = "mgr_log" -> "mgr_log_call"
      [] r = "mgr_flush" -> "mgr_flush_call"
      [] r = "tl_log" -> "tl_log_push"
      [] r = "macro" -> "macro_gate"

\* The caller invokes Config::get and keeps the snapshot
CallGet(t) ==
    /\ Begin(t, "get", NoArg)
    /\ pc' = [pc EXCEPT ![t] = "get_lock"]
    /\ ret' = [ret EXCEPT ![t] = "user"]
    /\ UNCHANGED <<heap, ptr_, mtx_, loc, buf, cfgGhost, bufGhost>>

\* std::lock_guard lock(instance().mtx_)
GetLock(t) ==
    /\ pc[t] = "get_lock"
    /\ mtx_ = 0
    /\ mtx_' = t
    /\ pc' = [pc EXCEPT ![t] = "get_read"]
    /\ UNCHANGED <<heap, ptr_, loc, buf, op, ret, arg, nops, outs, cfgGhost,
                   bufGhost>>
    /\ UNCHANGED <<fn, logs>>

\* The snapshot Config::get returns
GetValue == ptr_

\* Variant: the lock outlives the call
UnlockNever(t) == t

\* ~lock_guard() at the end of Config::get and Config::set: mtx_ is free
Unlock(t) == 0

\* return instance().ptr_; the lock is released on return
GetRead(t) ==
    /\ pc[t] = "get_read"
    /\ mtx_' = Unlock(t)
    /\ loc' = [loc EXCEPT ![t][GetTarget(ret[t])] = GetValue]
    /\ pc' = [pc EXCEPT ![t] = GetCont(ret[t])]
    /\ seen' = IF ret[t] = "user" THEN [seen EXCEPT ![t] = heap[GetValue]]
               ELSE seen
    /\ ptr_' = ptr_
    /\ heap' = Collect(heap)
    /\ UNCHANGED <<buf, op, ret, arg, nops, outs, issued, installed, solo,
                   lastSolo, bufGhost>>
    /\ UNCHANGED <<fn, logs>>

\* The caller drops the snapshot it holds
Release(t) ==
    /\ pc[t] = "idle"
    /\ loc[t].held # Null
    /\ loc' = [loc EXCEPT ![t].held = Null]
    /\ seen' = [seen EXCEPT ![t] = NoCfg]
    /\ ptr_' = ptr_
    /\ heap' = Collect(heap)
    /\ UNCHANGED <<mtx_, buf, ctl, outs, issued, installed, solo, lastSolo,
                   bufGhost>>
    /\ UNCHANGED <<fn, logs>>

\* ------------------------------------------------------------------------
\* Config::set (ErrorConfig.h)
\* ------------------------------------------------------------------------
CallSet(t, c) ==
    /\ Begin(t, "set", [NoArg EXCEPT !.cfg = c])
    /\ pc' = [pc EXCEPT ![t] = "set_make"]
    /\ issued' = issued \cup {c}
    /\ solo' = [u \in Threads |-> IF u = t THEN \A v \in Threads : ~InSet(v)
                                  ELSE FALSE]
    /\ lastSolo' = NoCfg
    /\ UNCHANGED <<heap, ptr_, mtx_, loc, buf, ret, seen, installed, bufGhost>>

\* auto sp = std::make_shared<const ErrorConfig>(std::move(cfg));
SetMake(t) ==
    /\ pc[t] = "set_make"
    /\ SnapIds \ Refs # {}
    /\ loc' = [loc EXCEPT ![t].sp = AllocId]
    /\ heap' = [heap EXCEPT ![AllocId] = MakeShared(arg[t].cfg)]
    /\ pc' = [pc EXCEPT ![t] = "set_lock"]
    /\ UNCHANGED <<ptr_, mtx_, buf, op, ret, arg, nops, outs, cfgGhost,
                   bufGhost>>
    /\ UNCHANGED <<fn, logs>>

\* std::lock_guard lock(instance().mtx_)
SetLock(t) ==
    /\ pc[t] = "set_lock"
    /\ mtx_ = 0
    /\ mtx_' = t
    /\ pc' = [pc EXCEPT ![t] = "set_store"]
    /\ UNCHANGED <<heap, ptr_, loc, buf, op, ret, arg, nops, outs, cfgGhost,
                   bufGhost>>
    /\ UNCHANGED <<fn, logs>>

\* instance().ptr_ = sp; then lock and sp go out of scope
SetStore(t) ==
    /\ pc[t] = "set_store"
    /\ ptr_' = loc[t].sp
    /\ mtx_' = Unlock(t)
    /\ loc' = [loc EXCEPT ![t].sp = Null]
    /\ pc' = [pc EXCEPT ![t] = "idle"]
    /\ installed' = arg[t].cfg
    /\ lastSolo' = IF solo[t] THEN arg[t].cfg ELSE lastSolo
    /\ solo' = [solo EXCEPT ![t] = FALSE]
    /\ heap' = Collect(heap)
    /\ UNCHANGED <<buf, op, ret, arg, nops, outs, seen, issued, bufGhost>>
    /\ UNCHANGED <<fn, logs>>

\* ------------------------------------------------------------------------
\* Configuration singleton alone: threads get, hold, release and set
\* ------------------------------------------------------------------------
CfgInputs ==
    {MkConfig("EnUS", "Status", Debug, 2, "sink"),
     MkConfig("PtBR", "Throw", Error, 1, "tl"),
     MkConfig("EnUS", "Throw", Fatal, 0, "null")}

NextConfig ==
    \E t \in Threads :
        \/ CallGet(t)
        \/ GetLock(t)
        \/ GetRead(t)
        \/ Release(t)
        \/ \E c \in CfgInputs : CallSet(t, c)
        \/ SetMake(t)
        \/ SetLock(t)
        \/ SetStore(t)

SpecConfig == Init /\ [][NextConfig]_vars

\* ------------------------------------------------------------------------
\* ThreadLocalBufferLogger and ErrorManager (ErrorManager.h)
\* ------------------------------------------------------------------------
\* Variant: one static vector for all threads
BufferShared(t) == 1

\* buffer(): the static thread_local vector of the calling thread
BufferOf(t) == t

\* Variants: no capacity test; capacity test off by one
AcceptsAlways(size, cap) == TRUE
AcceptsOffByOne(size, cap) == size <= cap

\* if (buf.size() < cap)
Accepts(size, cap) == size < cap

\* Variants: flush copies the buffer and does not clear it; flush removes
\* the newest record only
FlushKeeps(b) == b
FlushLeavesOlder(b) == IF b = << >> THEN << >> ELSE SubSeq(b, 1, Len(b) - 1)

\* out.swap(buf): what flush returns and what it leaves in the buffer
FlushTaken(b) == b
FlushLeft(b) == << >>

\* IErrorLogger::flush() as inherited by a logger without buffer
DefaultFlush == << >>

\* Variant: the facade forwards without testing the logger
HasLoggerAlways(g) == TRUE

\* if (cfg->logger)
HasLogger(g) == g # "null"

\* MockLogger::log: logs.push_back(r)
MockLog(l, r) == Append(l, r)

\* Variant: the custom logger's flush result is discarded
MockFlushNone(l) == << >>

\* MockLogger::flush: out = logs; logs.clear(); return out
MockFlushTaken(l) == l
MockFlushLeft(l) == << >>

\* The step after ErrorManager::log (or a filtered log_error) returns
InMacro(t) == op[t] \in {"fvg_error", "fvg_assert"}
AfterLogPc(t) == IF InMacro(t) THEN "get_lock" ELSE "idle"
AfterLogRet(t) == IF InMacro(t) THEN "macro" ELSE ret[t]

\* The caller invokes ErrorManager::log(rec) with a record it built
CallLog(t, r) ==
    /\ Begin(t, "log", [NoArg EXCEPT !.rec = r])
    /\ pc' = [pc EXCEPT ![t] = "get_lock"]
    /\ ret' = [ret EXCEPT ![t] = "mgr_log"]
    /\ UNCHANGED <<heap, ptr_, mtx_, loc, buf, cfgGhost, bufGhost>>

\* ErrorManager::log after Config::get: if (cfg->logger) cfg->logger->log(rec)
MgrLogCall(t) ==
    /\ pc[t] = "mgr_log_call"
    /\ LET g == heap[loc[t].M].logger
       IN /\ obs' = [obs EXCEPT ![t].logger = g]
          /\ sent' = IF HasLogger(g)
                     THEN [sent EXCEPT ![t] = Append(@, arg[t].rec)]
                     ELSE sent
          /\ logs' = IF g = "mock" THEN MockLog(logs, arg[t].rec) ELSE logs
          /\ IF g = "tl"
             THEN /\ pc' = [pc EXCEPT ![t] = "get_lock"]
                  /\ ret' = [ret EXCEPT ![t] = "tl_log"]
                  /\ UNCHANGED <<loc, heap>>
             ELSE /\ pc' = [pc EXCEPT ![t] = AfterLogPc(t)]
                  /\ ret' = [ret EXCEPT ![t] = AfterLogRet(t)]
                  /\ loc' = [loc EXCEPT ![t].M = Null, ![t].D = Null]
                  /\ ptr_' = ptr_
                  /\ heap' = Collect(heap)
    /\ UNCHANGED <<ptr_, mtx_, buf, op, arg, nops, res, thrown, exc, cfgGhost,
                   bufGhost>>
    /\ UNCHANGED fn

\* ThreadLocalBufferLogger::log after its own Config::get
TlLogPush(t) ==
    /\ pc[t] = "tl_log_push"
    /\ LET cap == heap[loc[t].L].thread_buffer_cap
           b == BufferOf(t)
           ok == Accepts(Len(buf[b]), cap)
       IN /\ obs' = [obs EXCEPT ![t].cap = cap]
          /\ buf' = IF ok THEN [buf EXCEPT ![b] = Append(@, arg[t].rec)]
                    ELSE buf
          /\ accepted' = IF ok THEN [accepted EXCEPT ![t] = Append(@, arg[t].rec)]
                         ELSE accepted
          /\ capAt' = IF ok THEN [capAt EXCEPT ![t] = cap] ELSE capAt
          /\ tried' = [tried EXCEPT ![t] = Append(@, arg[t].rec)]
    /\ pc' = [pc EXCEPT ![t] = AfterLogPc(t)]
    /\ ret' = [ret EXCEPT ![t] = AfterLogRet(t)]
    /\ loc' = [loc EXCEPT ![t].L = Null, ![t].M = Null, ![t].D = Null]
    /\ ptr_' = ptr_
    /\ heap' = Collect(heap)
    /\ UNCHANGED <<mtx_, op, arg, nops, res, thrown, exc, sent, cfgGhost,
                   delivered>>
    /\ UNCHANGED <<fn, logs>>

\* The caller invokes ErrorManager::flush()
CallFlush(t) ==
    /\ Begin(t, "flush", NoArg)
    /\ pc' = [pc EXCEPT ![t] = "get_lock"]
    /\ ret' = [ret EXCEPT ![t] = "mgr_flush"]
    /\ UNCHANGED <<heap, ptr_, mtx_, loc, buf, cfgGhost, bufGhost>>

\* ErrorManager::flush after Config::get:
\* if (cfg->logger) return cfg->logger->flush(); return {};
MgrFlushCall(t) ==
    /\ pc[t] = "mgr_flush_call"
    /\ LET g == heap[loc[t].M].logger
           b == BufferOf(t)
       IN /\ obs' = [obs EXCEPT ![t].logger = g]
          /\ IF g = "tl"
             THEN /\ res' = [res EXCEPT ![t] = FlushTaken(buf[b])]
                  /\ buf' = [buf EXCEPT ![b] = FlushLeft(buf[b])]
                  /\ delivered' = [delivered EXCEPT
                                      ![t] = @ \o FlushTaken(buf[b])]
                  /\ tried' = [tried EXCEPT ![t] = << >>]
                  /\ capAt' = [capAt EXCEPT ![t] = 0]
             ELSE /\ res' = [res EXCEPT ![t] =
                             IF g = "mock" THEN MockFlushTaken(logs)
                             ELSE IF HasLogger(g) THEN DefaultFlush
                             ELSE << >>]
                  /\ UNCHANGED <<buf, delivered, tried, capAt>>
          /\ logs' = IF g = "mock" THEN MockFlushLeft(logs) ELSE logs
    /\ pc' = [pc EXCEPT ![t] = IF InMacro(t) THEN "macro_throw" ELSE "idle"]
    /\ loc' = [loc EXCEPT ![t].M = Null]
    /\ ptr_' = ptr_
    /\ heap' = Collect(heap)
    /\ UNCHANGED <<mtx_, op, ret, arg, nops, thrown, exc, sent, cfgGhost,
                   accepted>>
    /\ UNCHANGED fn

\* ------------------------------------------------------------------------
\* detail::log_error (Detail.h)
\* ------------------------------------------------------------------------
\* Variant: a record at the threshold is filtered too
FilteredInclusive(sev, min) == sev <= min

\* if (sev < cfg->min_severity) return;
Filtered(sev, min) == sev < min

CallLogError(t, e, kv) ==
    /\ Begin(t, "log_error", [NoArg EXCEPT !.e = e, !.kv = kv])
    /\ pc' = [pc EXCEPT ![t] = "get_lock"]
    /\ ret' = [ret EXCEPT ![t] = "detail"]
    /\ UNCHANGED <<heap, ptr_, mtx_, loc, buf, cfgGhost, bufGhost>>

\* log_error after Config::get: filter, render, then ErrorManager::log
DetailFilter(t) ==
    /\ pc[t] = "detail_filter"
    /\ LET c == heap[loc[t].D]
           sev == default_severity(arg[t].e)
       IN IF Filtered(sev, c.min_severity)
          THEN /\ obs' = [obs EXCEPT ![t].min_severity = c.min_severity]
               /\ pc' = [pc EXCEPT ![t] = AfterLogPc(t)]
               /\ ret' = [ret EXCEPT ![t] = AfterLogRet(t)]
               /\ loc' = [loc EXCEPT ![t].D = Null]
               /\ arg' = arg
          ELSE /\ obs' = [obs EXCEPT ![t].min_severity = c.min_severity,
                                     ![t].language = c.language]
               /\ pc' = [pc EXCEPT ![t] = "get_lock"]
               /\ ret' = [ret EXCEPT ![t] = "mgr_log"]
               /\ loc' = loc
               /\ arg' = [arg EXCEPT ![t].rec =
                             MkRecord(code(arg[t].e), sev,
                                      Render(c.language, arg[t].e, arg[t].kv),
                                      t)]
    /\ ptr_' = ptr_
    /\ heap' = Collect(heap)
    /\ UNCHANGED <<mtx_, buf, op, nops, res, thrown, exc, sent, cfgGhost,
                   bufGhost>>
    /\ UNCHANGED <<fn, logs>>

\* ------------------------------------------------------------------------
\* FVG_ERROR (Macros.h)
\* ------------------------------------------------------------------------
\* Variant: only Fatal passes the gate
GateStrict(policy, sev) == policy = "Throw" /\ sev > Error

\* policy == Policy::Throw, then fvg_err_sev_ >= Severity::Error
Gate(policy, sev) == policy = "Throw" /\ sev >= Error

\* fvg_err_errors_.back()
Back(s) == s[Len(s)]

\* Variant: the fallback record keeps the default code
FallbackNoCode(e, t) ==
    MkRecord(<<0, 0>>, default_severity(e), FallbackMessage, t)

\* The record of the fallback throw
Fallback(e, t) == MkRecord(code(e), default_severity(e), FallbackMessage, t)

\* The record the macro throws with, given what flush returned
Thrown(errors, e, t) ==
    IF errors # << >> THEN Back(errors) ELSE Fallback(e, t)

CallFvgError(t, e, kv) ==
    /\ Begin(t, "fvg_error",
             [NoArg EXCEPT !.e = e, !.kv = kv, !.pre = buf[BufferOf(t)]])
    /\ pc' = [pc EXCEPT ![t] = "get_lock"]
    /\ ret' = [ret EXCEPT ![t] = "detail"]
    /\ UNCHANGED <<heap, ptr_, mtx_, loc, buf, cfgGhost, bufGhost>>

\* Variant: the assertion reports CoreErr::NotImplemented
AssertErrWarning == 3

\* CoreErr::AssertFailed
AssertErr == 4

\* FVG_ASSERT(condition, kv): if (!(condition)) FVG_ERROR(AssertFailed, kv)
CallFvgAssert(t, cond, kv) ==
    /\ Begin(t, "fvg_assert",
             [NoArg EXCEPT !.e = AssertErr, !.kv = kv, !.cond = cond])
    /\ IF cond
       THEN UNCHANGED <<pc, ret>>
       ELSE /\ pc' = [pc EXCEPT ![t] = "get_lock"]
            /\ ret' = [ret EXCEPT ![t] = "detail"]
    /\ UNCHANGED <<heap, ptr_, mtx_, loc, buf, cfgGhost, bufGhost>>

\* After log_error and the macro's Config::get: the two nested ifs
MacroGate(t) ==
    /\ pc[t] = "macro_gate"
    /\ LET c == heap[loc[t].E]
       IN /\ obs' = [obs EXCEPT ![t].policy = c.policy]
          /\ IF Gate(c.policy, default_severity(arg[t].e))
             THEN /\ pc' = [pc EXCEPT ![t] = "get_lock"]
                  /\ ret' = [ret EXCEPT ![t] = "mgr_flush"]
                  /\ loc' = loc
             ELSE /\ pc' = [pc EXCEPT ![t] = "idle"]
                  /\ ret' = ret
                  /\ loc' = [loc EXCEPT ![t].E = Null]
    /\ ptr_' = ptr_
    /\ heap' = Collect(heap)
    /\ UNCHANGED <<mtx_, buf, op, arg, nops, res, thrown, exc, sent, cfgGhost,
                   bufGhost>>
    /\ UNCHANGED <<fn, logs>>

\* After ErrorManager::flush: throw FVGException(...)
MacroThrow(t) ==
    /\ pc[t] = "macro_throw"
    /\ thrown' = [thrown EXCEPT ![t] = TRUE]
    /\ exc' = [exc EXCEPT ![t] = Thrown(res[t], arg[t].e, t)]
    /\ pc' = [pc EXCEPT ![t] = "idle"]
    /\ loc' = [loc EXCEPT ![t].E = Null]
    /\ ptr_' = ptr_
    /\ heap' = Collect(heap)
    /\ UNCHANGED <<mtx_, buf, op, ret, arg, nops, res, sent, obs, cfgGhost,
                   bufGhost>>
    /\ UNCHANGED <<fn, logs>>

\* ------------------------------------------------------------------------
\* The whole core: every thread may call set, log_error, FVG_ERROR, log and
\* flush
\* ------------------------------------------------------------------------
Name == <<"n", "a", "m", "e">>
KvName == << <<Name, <<"x">>>> >>

\* Arguments of log_error and FVG_ERROR: InvalidArgument (Error) with its
\* pair, NotImplemented (Warning), AssertFailed (Fatal)
ErrInputs == {<<1, KvName>>, <<3, << >> >>, <<4, << >> >>}

MainInputs ==
    {MkConfig("PtBR", "Throw", Warning, 1, "tl"),
     MkConfig("EnUS", "Throw", Fatal, 1, "tl"),
     MkConfig("EnUS", "Status", Debug, 0, "tl"),
     MkConfig("EnUS", "Throw", Debug, 0, "tl"),
     MkConfig("EnUS", "Throw", Warning, 2, "sink"),
     MkConfig("PtBR", "Throw", Warning, 2, "null")}

\* The thread that reports errors; the other threads reconfigure meanwhile
Callers == {1}

Next ==
    \/ \E t \in Threads \ Callers :
           \/ \E c \in MainInputs : CallSet(t, c)
           \/ SetMake(t)
           \/ SetLock(t)
           \/ SetStore(t)
    \/ \E t \in Callers :
           \/ GetLock(t)
           \/ GetRead(t)
           \/ MgrLogCall(t)
           \/ TlLogPush(t)
           \/ CallFlush(t)
           \/ MgrFlushCall(t)
           \/ \E x \in ErrInputs : CallLogError(t, x[1], x[2])
           \/ \E x \in ErrInputs : CallFvgError(t, x[1], x[2])
           \/ DetailFilter(t)
           \/ MacroGate(t)
           \/ MacroThrow(t)

\* The state after a first Config::set(c), or after construction
InitCore == \E c \in MainInputs \cup {DefaultConfig} : InitWith(c, MaxOps)

Spec == InitCore /\ [][Next]_vars

\* ------------------------------------------------------------------------
\* Assertions: one thread asserts, with records of earlier log_error calls
\* pending, while the other threads reconfigure
\* ------------------------------------------------------------------------
NextAssert ==
    \/ \E t \in Threads \ Callers :
           \/ \E c \in MainInputs : CallSet(t, c)
           \/ SetMake(t)
           \/ SetLock(t)
           \/ SetStore(t)
    \/ \E t \in Callers :
           \/ GetLock(t)
           \/ GetRead(t)
           \/ MgrLogCall(t)
           \/ TlLogPush(t)
           \/ MgrFlushCall(t)
           \/ \E x \in ErrInputs : CallLogError(t, x[1], x[2])
           \/ \E b \in BOOLEAN : CallFvgAssert(t, b, << >>)
           \/ DetailFilter(t)
           \/ MacroGate(t)
           \/ MacroThrow(t)

SpecAssert == InitCore /\ [][NextAssert]_vars

\* ------------------------------------------------------------------------
\* The default logger under a fixed capacity: every thread logs records it
\* built itself and flushes, through ErrorManager
\* ------------------------------------------------------------------------
\* ErrorRecord objects built by thread t (tid is captured at construction)
RecInputs(t) ==
    {MkRecord(<<0, 10>>, Error, <<"A">>, t),
     MkRecord(<<0, 11>>, Error, <<"B">>, t)}

CapInputs == {0, 1, 2}

InitLogger ==
    \E c \in CapInputs :
        InitWith([DefaultConfig EXCEPT !.thread_buffer_cap = c], MaxLogOps)

NextLogger ==
    \E t \in Threads :
        \/ \E r \in RecInputs(t) : CallLog(t, r)
        \/ CallFlush(t)
        \/ GetLock(t)
        \/ GetRead(t)
        \/ MgrLogCall(t)
        \/ TlLogPush(t)
        \/ MgrFlushCall(t)

SpecLogger == InitLogger /\ [][NextLogger]_vars

\* ------------------------------------------------------------------------
\* The facade with every kind of logger: one thread logs and flushes through
\* ErrorManager while the other threads install configurations
\* ------------------------------------------------------------------------
ManagerInputs ==
    {[DefaultConfig EXCEPT !.thread_buffer_cap = 1],
     [DefaultConfig EXCEPT !.logger = "null"],
     [DefaultConfig EXCEPT !.logger = "sink"],
     [DefaultConfig EXCEPT !.logger = "mock"]}

InitManager == \E c \in ManagerInputs : InitWith(c, MaxLogOps)

NextManager ==
    \/ \E t \in Threads \ Callers :
           \/ \E c \in ManagerInputs : CallSet(t, c)
           \/ SetMake(t)
           \/ SetLock(t)
           \/ SetStore(t)
    \/ \E t \in Callers :
           \/ \E r \in RecInputs(t) : CallLog(t, r)
           \/ CallFlush(t)
           \/ GetLock(t)
           \/ GetRead(t)
           \/ MgrLogCall(t)
           \/ TlLogPush(t)
           \/ MgrFlushCall(t)

SpecManager == InitManager /\ [][NextManager]_vars

\* ------------------------------------------------------------------------
\* Properties
\* ------------------------------------------------------------------------
Done(t, o) == pc[t] = "idle" /\ op[t] = o
Steps(t, l) == pc[t] = l /\ pc'[t] # l
Min(a, b) == IF a <= b THEN a ELSE b
Prefix(s, n) == SubSeq(s, 1, Min(Len(s), n))
GetFields == LocFields \ {"sp"}

\* C1 - Snapshot stability: the content of a snapshot a thread holds equals,
\* at every later time and whatever Config::set calls are made, the content
\* it had when Config::get returned it; and a Config::get returns the
\* configuration of the set that swapped the pointer last.
C1_SnapshotStability ==
    /\ [](\A t \in Threads :
             loc[t].held # Null => heap[loc[t].held] = seen[t])
    /\ [][\A t \in Threads :
             (Steps(t, "get_read") /\ ret[t] = "user")
                 => (loc'[t].held # Null /\ seen'[t] = installed)]_vars

\* A thread holds an old snapshot while another configuration is current
C1_Witness ==
    \E t \in Threads :
        /\ loc[t].held # Null
        /\ loc[t].held # ptr_
        /\ seen[t] # heap[ptr_]
        /\ heap[ptr_] = installed

\* C2 - Atomic configuration register: the current pointer is never null,
\* every snapshot a get handed out is, in all its fields, the default
\* configuration or the argument of one set call that had started, and after
\* a set that overlapped no other set has returned the current configuration
\* is that set's argument until the next set starts.
C2_AtomicRegister ==
    /\ ptr_ # Null
    /\ heap[ptr_] \in issued \cup {DefaultConfig}
    /\ \A t \in Threads : \A f \in GetFields :
           loc[t][f] # Null => heap[loc[t][f]] \in issued \cup {DefaultConfig}
    /\ lastSolo # NoCfg => heap[ptr_] = lastSolo

\* A get returned the configuration of a set that ran alone
C2_Witness ==
    \E t \in Threads :
        /\ lastSolo # NoCfg
        /\ Done(t, "get")
        /\ loc[t].held # Null
        /\ heap[loc[t].held] = lastSolo

\* C3 - Thread isolation: every record a flush on thread T returns was
\* logged on T, and a step of one thread never changes the buffer of
\* another thread.
C3_ThreadIsolation ==
    /\ [](\A t \in Threads : \A i \in 1..Len(res[t]) : res[t][i].tid = t)
    /\ [][\A u \in Threads : buf'[u] # buf[u] => pc'[u] # pc[u]]_vars

\* A flush returned records while another thread had records pending
C3_Witness ==
    \E t \in Threads, u \in Threads :
        /\ t # u
        /\ Done(t, "flush")
        /\ res[t] # << >>
        /\ buf[u] # << >>

\* C4 - Exactly-once delivery per thread: the records accepted into a
\* thread's buffer are, in order, the concatenation of its flush results
\* followed by the buffer's content, and a flush leaves the buffer empty.
C4_ExactlyOnce ==
    \A t \in Threads :
        /\ accepted[t] = delivered[t] \o buf[t]
        /\ Done(t, "flush") => buf[t] = << >>

\* A flush delivered the records of a thread that had accepted two or more
C4_Witness ==
    \E t \in Threads :
        /\ Len(delivered[t]) >= 1
        /\ Len(accepted[t]) >= 2
        /\ Done(t, "flush")

\* C8 - Drop-newest at capacity: under a fixed capacity c, a flush returns
\* the first min(n, c) of the n records logged on the thread since its buffer
\* was empty, in order, and a log call beyond the c-th leaves the buffer
\* unchanged and returns normally.
C8_DropNewest ==
    [][\A t \in Threads :
          LET c == heap[ptr_].thread_buffer_cap
          IN /\ Steps(t, "mgr_flush_call") => res'[t] = Prefix(tried[t], c)
             /\ (Steps(t, "tl_log_push") /\ Len(tried[t]) >= c)
                    => (buf'[t] = buf[t] /\ pc'[t] = "idle" /\ ~thrown'[t])
             /\ (Steps(t, "tl_log_push") /\ Len(tried[t]) < c)
                    => buf'[t] = Append(buf[t], arg[t].rec)]_vars

\* A record was dropped at a full buffer of capacity at least 1
C8_Witness ==
    \E t \in Threads :
        /\ heap[ptr_].thread_buffer_cap >= 1
        /\ Len(buf[t]) = heap[ptr_].thread_buffer_cap
        /\ Len(tried[t]) > Len(buf[t])
        /\ Done(t, "log")

\* C5 - Raise gate: FVG_ERROR(e, kv) throws exactly when the configuration
\* it reads for the decision has policy Throw and default_severity(e) is at
\* least Error, whatever min_severity, buffer, capacity and logger are; a
\* Warning-level e under Throw does not throw and its record, when it passes
\* the severity filter, is still handed to the installed logger.
C5_RaiseGate ==
    \A t \in Threads :
        Done(t, "fvg_error") =>
            LET sev == default_severity(arg[t].e)
            IN /\ thrown[t] <=> (obs[t].policy = "Throw" /\ sev >= Error)
               /\ obs[t].policy = "Status" => ~thrown[t]
               /\ (sev = Warning /\ sev >= obs[t].min_severity
                       /\ obs[t].logger # "null")
                      => (/\ ~thrown[t]
                          /\ Len(sent[t]) = 1
                          /\ sent[t][1].code = code(arg[t].e))

\* An Error-level FVG_ERROR threw under policy Throw
C5_Witness ==
    \E t \in Threads :
        /\ Done(t, "fvg_error")
        /\ thrown[t]
        /\ obs[t].policy = "Throw"
        /\ default_severity(arg[t].e) = Error

\* C6 - Whenever FVG_ERROR(e, kv) throws, the exception carries the record of
\* this very call: code(e), default_severity(e) and the template of e in the
\* configured language with kv substituted, for every prior buffer content
\* and every min_severity.
C6_ExceptionCarriesOwnRecord ==
    \A t \in Threads :
        (Done(t, "fvg_error") /\ thrown[t]) =>
            /\ exc[t].code = code(arg[t].e)
            /\ exc[t].severity = default_severity(arg[t].e)
            /\ \E l \in Language :
                   exc[t].message = Render(l, arg[t].e, arg[t].kv)

\* C7 - Fallback signalling: when the gate is satisfied and the flush of
\* FVG_ERROR returns an empty sequence, FVG_ERROR still throws, with the
\* record built from code(e), default_severity(e) and the generic message;
\* once the gate is satisfied the throw is never skipped.
C7_FallbackThrow ==
    \A t \in Threads :
        (Done(t, "fvg_error") /\ obs[t].policy = "Throw"
             /\ default_severity(arg[t].e) >= Error) =>
            /\ thrown[t]
            /\ res[t] = << >> =>
                   exc[t] = MkRecord(code(arg[t].e),
                                     default_severity(arg[t].e),
                                     FallbackMessage, t)

\* FVG_ERROR threw after its flush had returned nothing
C7_Witness ==
    \E t \in Threads :
        /\ Done(t, "fvg_error")
        /\ thrown[t]
        /\ res[t] = << >>
        /\ exc[t].message = FallbackMessage

\* C9 (as claimed) - Buffer bound: in every reachable state each thread's
\* buffer holds at most as many records as the buffer capacity of the
\* current configuration.
C9_BufferWithinCurrentCap ==
    \A t \in Threads : Len(buf[t]) <= heap[ptr_].thread_buffer_cap

\* C9 (amended) - Each thread's buffer holds at most as many records as the
\* buffer capacity read by the log call that appended its newest record.
C9_BufferWithinCapRead ==
    \A t \in Threads : Len(buf[t]) <= capAt[t]

\* A buffer holds more records than the current capacity allows
C9_Witness ==
    \E t \in Threads :
        /\ Len(buf[t]) > heap[ptr_].thread_buffer_cap
        /\ Len(buf[t]) = capAt[t]

\* C10 - Severity filter: detail::log_error(e, kv) hands no record to the
\* logger and changes no buffer when default_severity(e) is below the
\* min_severity it reads; otherwise it hands exactly one record to the
\* installed logger, with code(e) and default_severity(e).
C10_SeverityFilter ==
    /\ [](\A t \in Threads :
             Done(t, "log_error") =>
                 LET sev == default_severity(arg[t].e)
                 IN IF sev < obs[t].min_severity
                    THEN sent[t] = << >> /\ obs[t].logger = "-"
                    ELSE obs[t].logger # "null" =>
                             /\ Len(sent[t]) = 1
                             /\ sent[t][1].code = code(arg[t].e)
                             /\ sent[t][1].severity = sev)
    /\ [][\A t \in Threads :
             (op[t] = "log_error" /\ Steps(t, "detail_filter")
                  /\ default_severity(arg[t].e) < heap[loc[t].D].min_severity)
                 => (buf' = buf /\ pc'[t] = "idle")]_vars

\* A log_error call was filtered out by min_severity
C10_Witness ==
    \E t \in Threads :
        /\ Done(t, "log_error")
        /\ obs[t].min_severity > default_severity(arg[t].e)
        /\ default_severity(arg[t].e) >= Warning

\* ------------------------------------------------------------------------
\* The substitution loop of detail::log_error applied to arbitrary templates
\* and pair lists
\* ------------------------------------------------------------------------
MaxPieces == 3
MaxPairs == 2

KeyA == <<"a">>
KeyB == <<"b">>
KeyC == <<"c">>
KeyInputs == {KeyA, KeyB}

\* Templates are made of placeholders (one of a key that is never listed)
\* and literal text that ends in a lone brace
TmplPieces == {Token(KeyA), Token(KeyB), Token(KeyC), <<"x", "{">>}

\* Values: empty, plain text, the own or another token, text around a token
ValInputs ==
    {<< >>, <<"y">>, Token(KeyA), Token(KeyB), <<"y">> \o Token(KeyA)}

RECURSIVE Concats(_, _)
Concats(P, n) ==
    IF n = 0 THEN {<< >>}
    ELSE LET S == Concats(P, n - 1) IN S \cup {s \o p : s \in S, p \in P}

RECURSIVE Lists(_, _)
Lists(P, n) ==
    IF n = 0 THEN {<< >>}
    ELSE LET S == Lists(P, n - 1) IN S \cup {Append(s, p) : s \in S, p \in P}

TmplInputs == Concats(TmplPieces, MaxPieces)
KvInputs == Lists(KeyInputs \X ValInputs, MaxPairs)

InitRender ==
    /\ InitObjects(DefaultConfig, 0)
    /\ input \in [f : {"render"}, tmpl : TmplInputs, kv : KvInputs]
    /\ output = NoOutput

\* std::string out(tmpl); for (const auto& [k, v] : kv) { ... }
ApplyRender ==
    /\ input.f = "render"
    /\ output = NoOutput
    /\ output' = [message |-> Substitute(input.tmpl, input.kv, 1)]
    /\ UNCHANGED <<objs, input>>

NextRender == ApplyRender

SpecRender == InitRender /\ [][NextRender]_vars

Rendered == input.f = "render" /\ output # NoOutput

\* Positions at which tok occurs in s
Occurrences(s, tok) == {i \in 0..(Len(s) - 1) : MatchAt(s, tok, i)}

\* s read from position i on with every occurrence of tok written as v
RECURSIVE ScanFrom(_, _, _, _)
ScanFrom(s, tok, v, i) ==
    IF i >= Len(s) THEN << >>
    ELSE IF MatchAt(s, tok, i) THEN v \o ScanFrom(s, tok, v, i + Len(tok))
    ELSE <<s[i + 1]>> \o ScanFrom(s, tok, v, i + 1)

\* The pairs applied one after the other, from pair i on
RECURSIVE PairByPair(_, _, _)
PairByPair(s, kv, i) ==
    IF i > Len(kv) THEN s
    ELSE PairByPair(ScanFrom(s, Token(kv[i][1]), kv[i][2], 0), kv, i + 1)

Listed(kv) == {kv[i][1] : i \in 1..Len(kv)}

FirstPairAt(s, kv, i) ==
    LET hits == {j \in 1..Len(kv) : MatchAt(s, Token(kv[j][1]), i)}
    IN IF hits = {} THEN 0 ELSE CHOOSE j \in hits : \A h \in hits : j <= h

\* The template read once from position i on: a token of a listed key is
\* written as its value, and written text is not read again
RECURSIVE OnePass(_, _, _)
OnePass(s, kv, i) ==
    IF i >= Len(s) THEN << >>
    ELSE LET j == FirstPairAt(s, kv, i)
         IN IF j = 0 THEN <<s[i + 1]>> \o OnePass(s, kv, i + 1)
            ELSE kv[j][2] \o OnePass(s, kv, i + Len(Token(kv[j][1])))

\* C12 - No re-substitution: text inserted as a substitution value is never
\* itself substituted; for every list of pairs, also when a value contains
\* its own token or the token of a key listed later, the rendered message is
\* the template with each placeholder written as its value exactly as given.
C12_NoReSubstitution ==
    Rendered => output.message = OnePass(input.tmpl, input.kv, 0)

\* C13 - Facade snapshot consistency: during one ErrorManager::log call with
\* the default logger, the configuration whose buffer capacity is applied to
\* the record is the configuration whose logger receives it, also when
\* Config::set runs concurrently.
C13_OneSnapshotPerLog ==
    \A t \in Threads :
        pc[t] = "tl_log_push" => heap[loc[t].L] = heap[loc[t].M]

\* C14 - Assertion: FVG_ASSERT with a true condition logs nothing, throws
\* nothing and changes no buffer, no logger and no configuration; with a
\* false condition it reports CoreErr::AssertFailed, whose severity is
\* Fatal, and throws exactly when the policy it reads is Throw, for every
\* min_severity, capacity, buffer content and logger; the exception is the
\* last flushed record or the fallback record of AssertFailed.
C14_Assert ==
    /\ [](\A t \in Threads :
             Done(t, "fvg_assert") =>
                 IF arg[t].cond
                 THEN ~thrown[t] /\ sent[t] = << >> /\ obs[t] = NoObs
                 ELSE /\ default_severity(arg[t].e) = Fatal
                      /\ code(arg[t].e) = <<1, 4>>
                      /\ thrown[t] <=> obs[t].policy = "Throw"
                      /\ thrown[t] =>
                             exc[t] = Thrown(res[t], AssertErr, t))
    /\ [][\A t \in Threads :
             (pc[t] = "idle" /\ op'[t] = "fvg_assert" /\ nops' # nops
                  /\ arg'[t].cond)
                 => /\ pc'[t] = "idle"
                    /\ <<buf, logs, heap, ptr_, mtx_>>'
                           = <<buf, logs, heap, ptr_, mtx_>>]_vars

\* A failed assertion threw although min_severity filtered its record, the
\* buffer had no room or no logger was installed
C14_Witness ==
    \E t \in Threads :
        /\ Done(t, "fvg_assert")
        /\ ~arg[t].cond
        /\ thrown[t]
        /\ sent[t] = << >>
        /\ buf[t] = << >>

\* C15 - No-logger safety: with a null logger in the configuration it reads,
\* ErrorManager::log returns without handing the record to anything and
\* without error, ErrorManager::flush returns the empty sequence, and no
\* buffer changes; with a logger present the record goes to that logger and
\* to no other, and flush returns that logger's flush.
C15_NoLoggerSafety ==
    /\ [](\A t \in Threads :
             /\ (Done(t, "log") /\ obs[t].logger = "null")
                    => (sent[t] = << >> /\ ~thrown[t])
             /\ (Done(t, "flush") /\ obs[t].logger = "null")
                    => (res[t] = << >> /\ ~thrown[t])
             /\ (Done(t, "log") /\ obs[t].logger \in {"tl", "sink", "mock"})
                    => sent[t] = <<arg[t].rec>>)
    /\ [][\A t \in Threads :
             LET g == heap[loc[t].M].logger
             IN /\ ((Steps(t, "mgr_log_call") \/ Steps(t, "mgr_flush_call"))
                        /\ g = "null")
                       => (buf' = buf /\ logs' = logs /\ pc'[t] = "idle")
                /\ (Steps(t, "mgr_log_call") /\ g = "tl")
                       => (logs' = logs /\ pc'[t] = "get_lock"
                               /\ ret'[t] = "tl_log")
                /\ (Steps(t, "mgr_log_call") /\ g \in {"sink", "mock"})
                       => buf' = buf
                /\ (Steps(t, "mgr_log_call") /\ g # "mock") => logs' = logs
                /\ (Steps(t, "mgr_flush_call") /\ g = "tl")
                       => (res'[t] = buf[t] /\ logs' = logs)
                /\ (Steps(t, "mgr_flush_call") /\ g = "mock")
                       => (res'[t] = logs /\ buf' = buf)]_vars

\* A flush ran without logger while records were pending in the thread's
\* buffer
C15_Witness ==
    \E t \in Threads :
        /\ Done(t, "flush")
        /\ obs[t].logger = "null"
        /\ buf[t] # << >>
        /\ res[t] = << >>

\* C16 - Custom logger injection: once a Config::set that installed custom
\* logger L has returned, an ErrorManager::log(r) hands r to L exactly once,
\* with r's code, severity and message, and leaves the thread-local buffers
\* alone; ErrorManager::flush returns what L.flush returns, which is the
\* content of L for the MockLogger and the empty sequence for a logger that
\* inherits flush.
C16_CustomLogger ==
    /\ [](\A t \in Threads :
             (Done(t, "log") /\ obs[t].logger \in {"sink", "mock"}) =>
                 /\ Len(sent[t]) = 1
                 /\ sent[t][1].code = arg[t].rec.code
                 /\ sent[t][1].severity = arg[t].rec.severity
                 /\ sent[t][1].message = arg[t].rec.message)
    /\ [][\A t \in Threads :
             LET g == heap[loc[t].M].logger
             IN /\ (Steps(t, "get_read") /\ lastSolo # NoCfg
                        /\ ret[t] \in {"mgr_log", "mgr_flush"})
                       => heap'[loc'[t].M].logger = lastSolo.logger
                /\ (Steps(t, "mgr_log_call") /\ g = "mock")
                       => (logs' = Append(logs, arg[t].rec) /\ buf' = buf
                               /\ pc'[t] = "idle")
                /\ (Steps(t, "mgr_log_call") /\ g = "sink")
                       => (logs' = logs /\ buf' = buf /\ pc'[t] = "idle")
                /\ (Steps(t, "mgr_flush_call") /\ g = "mock")
                       => (res'[t] = logs /\ logs' = << >> /\ buf' = buf)
                /\ (Steps(t, "mgr_flush_call") /\ g = "sink")
                       => (res'[t] = << >> /\ logs' = logs /\ buf' = buf)]_vars

\* After a set installed the MockLogger, a record logged through the facade
\* came back from the facade's flush
C16_Witness ==
    \E t \in Threads :
        /\ lastSolo.logger = "mock"
        /\ Done(t, "flush")
        /\ obs[t].logger = "mock"
        /\ Len(res[t]) = 1
        /\ logs = << >>
        /\ buf[t] = << >>

Dispatched(t) ==
    /\ pc[t] = "idle"
    /\ op[t] \in {"log_error", "fvg_error"}
    /\ obs[t].language # "-"

\* C17 - Language selection: the record a dispatch builds carries the ptBR
\* template of e (with kv substituted) when the snapshot read by that
\* dispatch has language PtBR and the enUS template when it has EnUS; its
\* code and severity are code(e) and default_severity(e) in both languages;
\* and a dispatch that reads the configuration after a Config::set has
\* returned, with no other set started, uses the language of that set.
C17_LanguageSelection ==
    /\ [](\A t \in Threads :
             Dispatched(t) =>
                 /\ obs[t].language = "PtBR" =>
                        arg[t].rec.message
                            = Substitute(ptBR(arg[t].e), arg[t].kv, 1)
                 /\ obs[t].language = "EnUS" =>
                        arg[t].rec.message
                            = Substitute(enUS(arg[t].e), arg[t].kv, 1)
                 /\ arg[t].rec.code = code(arg[t].e)
                 /\ arg[t].rec.severity = default_severity(arg[t].e)
                 /\ sent[t] \in {<< >>, <<arg[t].rec>>})
    /\ [][\A t \in Threads :
             /\ (Steps(t, "get_read") /\ ret[t] = "detail"
                     /\ lastSolo # NoCfg)
                    => heap'[loc'[t].D].language = lastSolo.language
             /\ (Steps(t, "detail_filter") /\ pc'[t] = "get_lock"
                     /\ ret'[t] = "mgr_log")
                    => obs'[t].language = heap[loc[t].D].language]_vars

\* After a set to EnUS returned, InvalidArgument was dispatched in English
C17_Witness ==
    \E t \in Threads :
        /\ Dispatched(t)
        /\ lastSolo # NoCfg
        /\ lastSolo.language = "EnUS"
        /\ arg[t].e = 1
        /\ sent[t] # << >>
        /\ sent[t][1].message = SubSeq(EN_InvalidArgument, 1, 18) \o <<"x", ".">>

\* ------------------------------------------------------------------------
\* ErrorTraits<E> applied to every 16-bit value of the three domains
\* ------------------------------------------------------------------------
U16 == 0..(Pow2_16 - 1)

InitTraits ==
    /\ InitObjects(DefaultConfig, 0)
    /\ input \in [f : {"traits"}, domain : Domains, e : U16]
    /\ output = NoOutput

\* default_severity(e), key(e), enUS(e), ptBR(e) and code(e)
ApplyTraits ==
    /\ input.f = "traits"
    /\ output = NoOutput
    /\ output' = [severity |-> get_info(input.domain, input.e).severity,
                  key |-> get_info(input.domain, input.e).key,
                  enUS |-> get_info(input.domain, input.e).enUS,
                  ptBR |-> get_info(input.domain, input.e).ptBR,
                  code |-> code_of(input.domain, input.e)]
    /\ UNCHANGED <<objs, input>>

NextTraits == ApplyTraits

SpecTraits == InitTraits /\ [][NextTraits]_vars

TraitsApplied == input.f = "traits" /\ output # NoOutput

Declared(E, e) == e >= DomainMin(E) /\ e <= DomainMax(E)

\* C18 - Undeclared enumerators: for CoreErr, FileErr and GridErr and every
\* 16-bit value outside [_Min, _Max] of the domain, default_severity is
\* Trace and key, enUS and ptBR are empty; the lookup yields a result for
\* every 16-bit value, and the declared values have a key and both messages.
C18_UndeclaredEnumerators ==
    TraitsApplied =>
        /\ output.severity \in Severity
        /\ ~Declared(input.domain, input.e) =>
               /\ output.severity = Trace
               /\ output.key = << >>
               /\ output.enUS = << >>
               /\ output.ptBR = << >>
        /\ Declared(input.domain, input.e) =>
               /\ output.severity >= Warning
               /\ output.key # << >>
               /\ output.enUS # << >>
               /\ output.ptBR # << >>

\* The lookup was made for the value after the last declared one, for 0 and
\* for 0xFFFF
C18_Witness ==
    /\ TraitsApplied
    /\ input.e \in {0, DomainMax(input.domain) + 1, 65535}
    /\ input.domain = "Grid"
    /\ output.severity = Trace

\* ------------------------------------------------------------------------
\* make_code applied to 16-bit pairs, and code(e) applied to the values of
\* the three domains
\* ------------------------------------------------------------------------
U16Inputs == {0, 1, 2, 3, 255, 256, 32767, 32768, 43690, 65534, 65535}

\* Values of a domain: the declared ones, 0 and some undeclared ones
ErrValues == 0..15

InitCodes ==
    /\ InitObjects(DefaultConfig, 0)
    /\ input \in [f : {"make_code"}, domain : U16Inputs, value : U16Inputs]
                 \cup [f : {"code"}, domain : Domains, e : ErrValues]
    /\ output = NoOutput

ApplyMakeCode ==
    /\ input.f = "make_code"
    /\ output = NoOutput
    /\ output' = [code |-> make_code(input.domain, input.value)]
    /\ UNCHANGED <<objs, input>>

ApplyCode ==
    /\ input.f = "code"
    /\ output = NoOutput
    /\ output' = [code |-> code_of(input.domain, input.e)]
    /\ UNCHANGED <<objs, input>>

NextCodes == ApplyMakeCode \/ ApplyCode

SpecCodes == InitCodes /\ [][NextCodes]_vars

MakeCodeApplied == input.f = "make_code" /\ output # NoOutput
CodeApplied == input.f = "code" /\ output # NoOutput

\* The number a 32-bit word stands for, when it is below 2^31
U32Value(w) == w[1] * Pow2_16 + w[2]

\* C19 - Code composition: make_code(d, v) is the 32-bit word with d in its
\* high half and v in its low half, that is d * 65536 + v, with nothing lost
\* and no sign extension (0xFFFF, 0xFFFF gives 0xFFFFFFFF); and code(e) of a
\* value e of domain E is make_code(domain_id of E, value of e).
C19_CodeComposition ==
    /\ MakeCodeApplied =>
           /\ output.code = <<input.domain, input.value>>
           /\ input.domain < 32768 =>
                  U32Value(output.code)
                      = input.domain * 65536 + input.value
    /\ CodeApplied =>
           /\ output.code = make_code(domain_id(input.domain), input.e)
           /\ output.code = <<domain_id(input.domain), input.e>>
           /\ input.domain = "Core" => code(input.e) = output.code

\* make_code(0xFFFF, 0xFFFF) was computed and is 0xFFFFFFFF
C19_Witness ==
    /\ MakeCodeApplied
    /\ input.domain = 65535
    /\ input.value = 65535
    /\ output.code = <<65535, 65535>>

RECURSIVE BitAnd(_, _)
BitAnd(a, b) ==
    IF a = 0 \/ b = 0 THEN 0
    ELSE (IF a % 2 = 1 /\ b % 2 = 1 THEN 1 ELSE 0)
         + 2 * BitAnd(a \div 2, b \div 2)

\* a & b on 32 bits
And32(a, b) == <<BitAnd(a[1], b[1]), BitAnd(a[2], b[2])>>

\* C20 - Code uniqueness: from make_code(d, v) the domain id is recovered as
\* code >> 16 and the value as code & 0xFFFF, so two pairs with the same
\* code are the same pair; the ids of Core, File and Grid differ pairwise,
\* so two error values of these domains with the same code are the same
\* value of the same domain.
C20_CodeUniqueness ==
    /\ MakeCodeApplied =>
           /\ ShiftRight16(output.code) = ToU32(input.domain)
           /\ And32(output.code, ToU32(65535)) = ToU32(input.value)
           /\ \A d \in U16Inputs, v \in U16Inputs :
                  make_code(d, v) = output.code
                      => (d = input.domain /\ v = input.value)
    /\ CodeApplied =>
           /\ ShiftRight16(output.code) = ToU32(domain_id(input.domain))
           /\ \A E \in Domains, e \in ErrValues :
                  code_of(E, e) = output.code
                      => (E = input.domain /\ e = input.e)
           /\ \A E \in Domains :
                  domain_id(E) = domain_id(input.domain) => E = input.domain

\* The code of a Grid value was computed while Core and File declare the
\* same numeric value
C20_Witness ==
    /\ CodeApplied
    /\ input.domain = "Grid"
    /\ input.e = 1
    /\ output.code = <<3, 1>>
    /\ Declared("Core", input.e)
    /\ Declared("File", input.e)

\* ------------------------------------------------------------------------
\* Status.h: Status and StatusOr<T> (T = int), applied on their own
\* ------------------------------------------------------------------------
\* ErrorRecord{} built on thread t
DefaultRecord(t) == MkRecord(<<0, 0>>, Error, << >>, t)

\* Status(): success
StatusOK(t) == [ok_ |-> TRUE, record_ |-> DefaultRecord(t)]

\* Status(ErrorRecord record): failure
StatusOf(r) == [ok_ |-> FALSE, record_ |-> r]

\* An empty std::optional<int>; the slot then holds no int
NoValue == [has |-> FALSE, v |-> 0]

\* StatusOr(const T& value) : value_(value); status_ keeps its initialiser
StatusOrOfValue(v, t) ==
    [value_ |-> [has |-> TRUE, v |-> v], status_ |-> StatusOK(t)]

\* StatusOr(Status status) : status_(std::move(status)); value_ stays empty
StatusOrOfStatus(s) == [value_ |-> NoValue, status_ |-> s]

\* StatusOr::ok() and StatusOr::status()
StatusOr_ok(x) == x.status_.ok_
StatusOr_status(x) == x.status_

\* Variant: an empty optional yields a default-constructed T
OptionalValueOrDefault(o) == [kind |-> "value", v |-> o.v]

\* std::optional<T>::value(): the value, or throws std::bad_optional_access
OptionalValue(o) ==
    IF o.has THEN [kind |-> "value", v |-> o.v]
    ELSE [kind |-> "bad_optional_access", v |-> 0]

\* StatusOr::value()
StatusOr_value(x) == OptionalValue(x.value_)

\* Values of T, the default-constructed int among them
TInputs == {0, 1, 42, -1}

\* Failure records: the error values 1..14 of the three domains, with and
\* without message, built on any thread
FailureRecords ==
    {MkRecord(code_of(E, e), get_info(E, e).severity, m, t) :
        E \in Domains, e \in 1..14, t \in Threads,
        m \in {<<"F", "a", "l", "h", "a">>, << >>}}

StatusInputs == {StatusOf(r) : r \in FailureRecords} \cup {StatusOK(1)}

InitStatus ==
    /\ InitObjects(DefaultConfig, 0)
    /\ input \in [f : {"of_value"}, v : TInputs]
                 \cup [f : {"of_status"}, s : StatusInputs]
    /\ output = NoOutput

Observe(x) ==
    [obj |-> x, ok |-> StatusOr_ok(x), status |-> StatusOr_status(x),
     value |-> StatusOr_value(x)]

\* StatusOr<int> res = v; then ok(), status(), value()
ApplyOfValue ==
    /\ input.f = "of_value"
    /\ output = NoOutput
    /\ output' = Observe(StatusOrOfValue(input.v, 1))
    /\ UNCHANGED <<objs, input>>

\* StatusOr<int> res = s; then ok(), status(), value()
ApplyOfStatus ==
    /\ input.f = "of_status"
    /\ output = NoOutput
    /\ output' = Observe(StatusOrOfStatus(input.s))
    /\ UNCHANGED <<objs, input>>

NextStatus == ApplyOfValue \/ ApplyOfStatus

SpecStatus == InitStatus /\ [][NextStatus]_vars

OfValueApplied == input.f = "of_value" /\ output # NoOutput
OfStatusApplied == input.f = "of_status" /\ output # NoOutput

\* C21 - StatusOr round trip: a StatusOr built from a value v is ok() and
\* value() returns v; a StatusOr built from a failure Status s is not ok(),
\* status() carries the record of s, and value() fails with
\* std::bad_optional_access instead of returning a default T.
C21_StatusOrRoundTrip ==
    /\ OfValueApplied =>
           /\ output.ok
           /\ output.status.ok_
           /\ output.value = [kind |-> "value", v |-> input.v]
    /\ (OfStatusApplied /\ ~input.s.ok_) =>
           /\ ~output.ok
           /\ output.status.record_ = input.s.record_
           /\ output.value.kind = "bad_optional_access"

\* value() was called on a StatusOr built from a failure with a message
C21_Witness ==
    /\ OfStatusApplied
    /\ ~input.s.ok_
    /\ input.s.record_.message # << >>
    /\ output.status.record_.code = <<3, 14>>
    /\ output.value.kind = "bad_optional_access"

\* C22 - No StatusOr without value reports success: constructing a StatusOr
\* from a success Status does not yield an object, so for every StatusOr
\* object ok() is true exactly when a value is present and value() succeeds.
C22_OkIffValue ==
    (OfValueApplied \/ OfStatusApplied) =>
        /\ output.ok <=> output.obj.value_.has
        /\ output.ok <=> output.value.kind = "value"


\* ------------------------------------------------------------------------
\* Initial configuration
\* ------------------------------------------------------------------------
\* The values the specification gives for the configuration on first use
FactoryDefault(c) ==
    /\ c.policy = "Throw"
    /\ c.min_severity = Warning
    /\ c.thread_buffer_cap = 256
    /\ c.language = "PtBR"
    /\ c.logger # "null"
    /\ c.logger = "tl"

\* C23 - Initial state: as long as no Config::set has been called, every
\* snapshot Config::get returned has policy Throw, min_severity Warning,
\* buffer capacity 256, language PtBR and a non-null logger of the default
\* thread-local buffering kind, and a default-constructed ErrorConfig has
\* these same values.
C23_InitialState ==
    /\ FactoryDefault(DefaultConfig)
    /\ issued = {} =>
           \A t \in Threads :
               loc[t].held # Null =>
                   /\ FactoryDefault(heap[loc[t].held])
                   /\ FactoryDefault(seen[t])

C23_Witness ==
    /\ issued = {}
    /\ \A t \in Threads : Done(t, "get") /\ loc[t].held # Null


\* ------------------------------------------------------------------------
\* Raises on the default logger: every thread raises with FVG_ERROR and
\* reconfigures; all configurations keep the thread-local logger
\* ------------------------------------------------------------------------
RaiseInputs ==
    {MkConfig("PtBR", "Throw", Warning, 2, "tl"),
     MkConfig("EnUS", "Status", Debug, 1, "tl"),
     MkConfig("EnUS", "Throw", Fatal, 1, "tl")}

InitRaise == \E c \in RaiseInputs : InitWith(c, MaxLogOps)

NextRaise ==
    \E t \in Threads :
        \/ \E x \in ErrInputs : CallFvgError(t, x[1], x[2])
        \/ \E c \in RaiseInputs : CallSet(t, c)
        \/ SetMake(t)
        \/ SetLock(t)
        \/ SetStore(t)
        \/ GetLock(t)
        \/ GetRead(t)
        \/ DetailFilter(t)
        \/ MgrLogCall(t)
        \/ TlLogPush(t)
        \/ MacroGate(t)
        \/ MgrFlushCall(t)
        \/ MacroThrow(t)

SpecRaise == InitRaise /\ [][NextRaise]_vars

\* The record FVG_ERROR hands to the logger, with the language it read
RaisedRecord(t) ==
    MkRecord(code(arg[t].e), default_severity(arg[t].e),
             Render(obs[t].language, arg[t].e, arg[t].kv), t)

\* The record of the call passed the filter and found room in the buffer
PassedWithRoom(t) ==
    /\ ~Filtered(default_severity(arg[t].e), obs[t].min_severity)
    /\ Len(arg[t].pre) < obs[t].cap

\* The caller's buffer when its FVG_ERROR has returned or thrown
RaiseEffect(t) ==
    Done(t, "fvg_error") =>
        IF thrown[t] THEN buf[t] = << >>
        ELSE IF PassedWithRoom(t)
             THEN buf[t] = Append(arg[t].pre, RaisedRecord(t))
             ELSE buf[t] = arg[t].pre

\* A step of an FVG_ERROR call of thread t leaves the other threads' buffers
\* and the configuration as they were
RaiseFrame(t) ==
    (op'[t] = "fvg_error" /\ pc'[t] # pc[t]) =>
        /\ \A u \in Threads \ {t} : buf'[u] = buf[u]
        /\ ptr_' = ptr_
        /\ heap'[ptr_] = heap[ptr_]

\* C24 - Effect of a raise on the buffers (default logger): after an
\* FVG_ERROR that throws the caller's buffer is empty; after one that does
\* not throw it is the earlier content followed by the new record when the
\* record passed the severity filter and the buffer had room, and the earlier
\* content otherwise; the buffers of the other threads and the configuration
\* are not changed by the call.
C24_RaiseEffect ==
    /\ [](\A t \in Threads : RaiseEffect(t))
    /\ [][\A t \in Threads : RaiseFrame(t)]_vars

\* A raise threw with two records pending while another thread holds a
\* record
C24_Witness ==
    \E t \in Threads :
        /\ Done(t, "fvg_error")
        /\ thrown[t]
        /\ Len(arg[t].pre) = 1
        /\ Len(res[t]) = 2
        /\ \E u \in Threads \ {t} : buf[u] # << >>


\* ------------------------------------------------------------------------
\* Progress: every thread calls get, set, log, flush and FVG_ERROR; a thread
\* inside a call keeps being scheduled
\* ------------------------------------------------------------------------
ProgressInputs ==
    {MkConfig("PtBR", "Throw", Warning, 1, "tl"),
     MkConfig("EnUS", "Status", Debug, 0, "tl")}

\* Arguments of FVG_ERROR: InvalidArgument (Error), NotImplemented (Warning)
ProgressErrs == {<<1, KvName>>, <<3, << >> >>}

InitProgress == \E c \in ProgressInputs : InitWith(c, MaxOps)

\* A call of some kind starts on thread t
CallAny(t) ==
    \/ CallGet(t)
    \/ \E c \in ProgressInputs : CallSet(t, c)
    \/ CallLog(t, MkRecord(<<0, 10>>, Error, <<"A">>, t))
    \/ CallFlush(t)
    \/ \E x \in ProgressErrs : CallFvgError(t, x[1], x[2])

\* The next step of the call thread t is in
StepOf(t) ==
    \/ GetLock(t)
    \/ GetRead(t)
    \/ SetMake(t)
    \/ SetLock(t)
    \/ SetStore(t)
    \/ DetailFilter(t)
    \/ MgrLogCall(t)
    \/ TlLogPush(t)
    \/ MacroGate(t)
    \/ MgrFlushCall(t)
    \/ MacroThrow(t)

NextProgress == \E t \in Threads : CallAny(t) \/ StepOf(t) \/ Release(t)

\* The scheduler runs every thread that can take a step of its call
SpecProgress ==
    /\ InitProgress
    /\ [][NextProgress]_vars
    /\ \A t \in Threads : WF_vars(StepOf(t))

\* Steps at which a thread owns Config::mtx_, asks for it, runs logger code
OwnsLock == {"get_read", "set_store"}
AsksLock == {"get_lock", "set_lock"}
InLogger == {"tl_log_push"}

\* The mutex is owned only between taking it and the copy or swap of ptr_;
\* so not while the owner asks for it again, nor inside a logger (whose own
\* Config::get has returned before the buffer is touched)
LockScope ==
    \A t \in Threads :
        /\ mtx_ = t => pc[t] \in OwnsLock
        /\ pc[t] \in AsksLock \cup InLogger => mtx_ # t

\* The append-or-drop step of log waits for nothing, whatever the buffer
\* holds
LogNeverWaits ==
    \A t \in Threads : pc[t] = "tl_log_push" => ENABLED TlLogPush(t)

KeyEmpty == << >>
KeyBraces == <<"}", "{">>
LoopKeys == {KeyEmpty, KeyA, KeyBraces}

\* Values for key k: empty, plain, a lone brace, the own token, text around
\* the own token
LoopValues(k) ==
    {<< >>, <<"y">>, <<"{">>, Token(k), <<"y">> \o Token(k) \o <<"y">>}

\* Templates for key k: its token, lone braces and plain text, concatenated
LoopTemplates(k) == Concats({Token(k), <<"{">>, <<"}">>, <<"x">>}, MaxPieces)

LoopInputs ==
    UNION {[f : {"loop"}, tmpl : LoopTemplates(k), k : {k}, v : LoopValues(k)] :
               k \in LoopKeys}

InitLoop ==
    /\ InitObjects(DefaultConfig, 0)
    /\ input \in LoopInputs
    /\ output = NoOutput

\* std::string out(tmpl); ... std::string::size_type pos = 0;
LoopEnter ==
    /\ input.f = "loop"
    /\ output = NoOutput
    /\ output' = [out |-> input.tmpl, pos |-> 0, n |-> 0, done |-> FALSE]
    /\ UNCHANGED <<objs, input>>

\* while ((pos = out.find(token, pos)) != npos): the body runs once
LoopBody ==
    /\ input.f = "loop"
    /\ output # NoOutput
    /\ ~output.done
    /\ LET token == Token(input.k)
           p == Find(output.out, token, output.pos)
       IN /\ p # npos
          /\ output' = [out |-> Replace(output.out, p, Len(token), input.v),
                        pos |-> Advance(p, input.v),
                        n |-> output.n + 1,
                        done |-> FALSE]
    /\ UNCHANGED <<objs, input>>

\* while ((pos = out.find(token, pos)) != npos): find fails, the loop ends
LoopExit ==
    /\ input.f = "loop"
    /\ output # NoOutput
    /\ ~output.done
    /\ Find(output.out, Token(input.k), output.pos) = npos
    /\ output' = [output EXCEPT !.done = TRUE]
    /\ UNCHANGED <<objs, input>>

NextLoop == LoopEnter \/ LoopBody \/ LoopExit

\* The loop is not suspended: it runs until find fails
SpecLoop == InitLoop /\ [][NextLoop]_vars /\ WF_vars(NextLoop)

InLoop == input.f = "loop" /\ output # NoOutput
LoopDone == InLoop /\ output.done

\* Text that is still ahead of the cursor
Ahead(o) == Len(o.out) - o.pos

\* One iteration replaces one occurrence that lies at or after the cursor
\* and leaves less text ahead of the cursor than before
OneReplacement ==
    (InLoop /\ InLoop' /\ output'.n # output.n) =>
        /\ output'.n = output.n + 1
        /\ \E p \in output.pos..(Len(output.out) - 1) :
               /\ MatchAt(output.out, Token(input.k), p)
               /\ output'.out = Replace(output.out, p, Len(Token(input.k)),
                                        input.v)
               /\ output'.pos = p + Len(input.v)
        /\ Ahead(output') < Ahead(output)
        /\ Ahead(output') >= 0

\* No more replacements than occurrences in the template
BoundedReplacements ==
    InLoop =>
        /\ output.n <= Cardinality(Occurrences(input.tmpl, Token(input.k)))
        /\ output.pos <= Len(output.out)
        /\ output.done => output.out = ReplaceAll(input.tmpl, Token(input.k),
                                                  input.v, 0)

\* C26 - Termination of substitution: for every template, every key (the
\* empty key with token "{}" too) and every value (empty, or containing the
\* token) the replacement loop terminates, and each iteration performs one
\* replacement of an occurrence found from the current cursor on.
C26_SubstitutionTerminates ==
    /\ <>LoopDone
    /\ []BoundedReplacements
    /\ [][OneReplacement]_vars

\* The loop ended after two replacements by a value that contains the token
\* of the empty key
C26_Witness ==
    /\ LoopDone
    /\ input.k = KeyEmpty
    /\ input.v = <<"y">> \o Token(KeyEmpty) \o <<"y">>
    /\ output.n = 2


\* ------------------------------------------------------------------------
\* Logger instances: threads log and flush through ErrorManager while the
\* configuration is replaced by fresh default ErrorConfig objects (each with
\* a ThreadLocalBufferLogger of its own) and by a custom logger
\* ------------------------------------------------------------------------
InstanceInputs ==
    {DefaultConfig, MkConfig("PtBR", "Throw", Warning, DefaultCap, "sink")}

\* Calls one thread may make in a row
MaxRow == 5

InitInstances == InitWith(DefaultConfig, MaxRow)

NextInstances ==
    \/ \E t \in Callers :
           \/ \E c \in InstanceInputs : CallSet(t, c)
           \/ CallFlush(t)
    \/ \E t \in Threads :
           \/ CallLog(t, MkRecord(<<0, 10>>, Error, <<"A">>, t))
           \/ SetMake(t)
           \/ SetLock(t)
           \/ SetStore(t)
           \/ GetLock(t)
           \/ GetRead(t)
           \/ MgrLogCall(t)
           \/ TlLogPush(t)
           \/ MgrFlushCall(t)

SpecInstances == InitInstances /\ [][NextInstances]_vars

\* The buffer of a thread is what was appended on it, by whatever instance,
\* less what its flushes returned
BufferOfThread ==
    \A t \in Threads : accepted[t] = delivered[t] \o buf[t]

\* A flush through a default logger returns the whole buffer of its thread;
\* a flush through another logger and every step of Config::set leave the
\* buffers as they are
FlushByInstance ==
    \A t \in Threads :
        /\ Steps(t, "mgr_flush_call") =>
               IF heap[loc[t].M].logger = "tl"
               THEN res'[t] = buf[t] /\ buf'[t] = << >>
               ELSE res'[t] = << >> /\ buf' = buf
        /\ (InSet(t) \/ InSet(t)') /\ pc'[t] # pc[t] => buf' = buf

\* C27 - The buffer belongs to the thread, not to a logger instance: records
\* logged on a thread through one default logger are returned by a flush on
\* that thread through any other default logger; replacing the configuration
\* by a fresh default ErrorConfig keeps the pending records, and records
\* buffered before a custom logger is installed stay in the buffer, unseen by
\* ErrorManager::flush, until a default logger is active again and flushed
\* on that thread.
C27_BufferPerThread ==
    /\ []BufferOfThread
    /\ [][FlushByInstance]_vars

\* A custom logger and a fresh default configuration have both been
\* installed, and the flush through the default logger active at the end
\* returned the one record logged on its thread
C27_Witness ==
    \E t \in Threads :
        /\ Done(t, "flush")
        /\ obs[t].logger = "tl"
        /\ Len(res[t]) = 1
        /\ nops = 0
        /\ installed = DefaultConfig
        /\ issued = InstanceInputs
        /\ delivered[t] = res[t]


\* ------------------------------------------------------------------------
\* Frame of Config::set: one thread holds snapshots and fills its buffer and
\* the custom logger, every thread installs configurations
\* ------------------------------------------------------------------------
\* A smaller capacity, no capacity, another logger, no logger
SetInputs ==
    {MkConfig("PtBR", "Throw", Warning, 2, "tl"),
     MkConfig("EnUS", "Status", Debug, 0, "tl"),
     MkConfig("EnUS", "Throw", Error, 1, "mock"),
     MkConfig("EnUS", "Throw", Fatal, 0, "null")}

InitSetFrame == InitWith(MkConfig("PtBR", "Throw", Warning, 2, "tl"), MaxLogOps)

NextSetFrame ==
    \/ \E t \in Callers :
           \/ CallGet(t)
           \/ Release(t)
           \/ \E r \in RecInputs(t) : CallLog(t, r)
           \/ MgrLogCall(t)
           \/ TlLogPush(t)
    \/ \E t \in Threads :
           \/ \E c \in SetInputs : CallSet(t, c)
           \/ SetMake(t)
           \/ SetLock(t)
           \/ SetStore(t)
           \/ GetLock(t)
           \/ GetRead(t)

SpecSetFrame == InitSetFrame /\ [][NextSetFrame]_vars

\* Thread t takes a step of a Config::set call (the call itself included)
SetStep(t) == op'[t] = "set" /\ pc'[t] # pc[t]

\* What a step of Config::set on thread t leaves as it was
SetFrame(t) ==
    SetStep(t) =>
        /\ buf' = buf
        /\ logs' = logs
        /\ \A u \in Threads \ {t} : sent'[u] = sent[u]
        /\ sent'[t] = << >>
        /\ tried' = tried
        /\ pc[t] # "idle" => arg'[t].cfg = arg[t].cfg
        /\ \A u \in Threads : \A f \in GetFields :
               loc[u][f] # Null =>
                   /\ loc'[u][f] = loc[u][f]
                   /\ heap'[loc[u][f]] = heap[loc[u][f]]
        /\ IF pc[t] = "set_store"
           THEN heap'[ptr_'] = arg[t].cfg
           ELSE ptr_' = ptr_ /\ heap'[ptr_] = heap[ptr_]

\* C28 - Frame of Config::set: a Config::set call changes only which
\* snapshot later Config::get calls return; it leaves every thread's buffer
\* unchanged (also when the new capacity is smaller than a buffer's size or
\* the logger is replaced), calls no logger method, and changes neither the
\* configuration object passed by the caller nor a snapshot handed out
\* earlier.
C28_SetFrame == [][\A t \in Threads : SetFrame(t)]_vars

\* A set that lowered the capacity below the size of a buffer has returned
\* while a thread holds the snapshot it got before
C28_Witness ==
    \E t, u \in Threads :
        /\ Done(t, "set")
        /\ installed = arg[t].cfg
        /\ heap[ptr_] = arg[t].cfg
        /\ Len(buf[u]) > heap[ptr_].thread_buffer_cap
        /\ loc[u].held # Null
        /\ loc[u].held # ptr_


\* ------------------------------------------------------------------------
\* ID objects (ID.hpp): threads construct, move, move-assign and destroy
\* objects of their own
\* ------------------------------------------------------------------------
\* ID(): uid_(next_uid()); the increment of the atomic counter is one step
Construct(t, p) ==
    /\ mv[t] = NoMove
    /\ counter < MaxIds
    /\ life[p] = "free"
    /\ counter' = counter + 1
    /\ uid_' = [uid_ EXCEPT ![p] = next_uid(counter)]
    /\ life' = [life EXCEPT ![p] = "live"]
    /\ owner' = [owner EXCEPT ![p] = t]
    /\ made' = [made EXCEPT ![t] = Append(@, next_uid(counter))]
    /\ UNCHANGED <<mv, errs, input, output>>

\* ID(ID&& other) : uid_(other.uid_), name_(...)
MoveInit(t, src, dst) ==
    /\ mv[t] = NoMove
    /\ life[src] = "live" /\ owner[src] = t
    /\ life[dst] = "free"
    /\ uid_' = [uid_ EXCEPT ![dst] = uid_[src]]
    /\ life' = [life EXCEPT ![dst] = "constructing"]
    /\ owner' = [owner EXCEPT ![dst] = t]
    /\ mv' = [mv EXCEPT ![t] = <<src, dst>>]
    /\ UNCHANGED <<counter, made, errs, input, output>>

\* operator=(ID&& other): if (this != &other) { uid_ = other.uid_; ...
AssignInit(t, src, dst) ==
    /\ mv[t] = NoMove
    /\ life[src] = "live" /\ owner[src] = t
    /\ life[dst] = "live" /\ owner[dst] = t
    /\ src # dst
    /\ uid_' = [uid_ EXCEPT ![dst] = uid_[src]]
    /\ mv' = [mv EXCEPT ![t] = <<src, dst>>]
    /\ UNCHANGED <<counter, life, owner, made, errs, input, output>>

\* { other.uid_ = INVALID_INDEX; } and the move is complete
MoveBody(t) ==
    /\ mv[t] # NoMove
    /\ uid_' = [uid_ EXCEPT ![mv[t][1]] = INVALID_INDEX]
    /\ life' = [life EXCEPT ![mv[t][2]] = "live"]
    /\ mv' = [mv EXCEPT ![t] = NoMove]
    /\ UNCHANGED <<counter, owner, made, errs, input, output>>

\* ~ID()
Destroy(t, p) ==
    /\ mv[t] = NoMove
    /\ life[p] = "live" /\ owner[p] = t
    /\ uid_' = [uid_ EXCEPT ![p] = NoUid]
    /\ life' = [life EXCEPT ![p] = "free"]
    /\ owner' = [owner EXCEPT ![p] = 0]
    /\ UNCHANGED <<counter, made, mv, errs, input, output>>

NextID ==
    \E t \in Threads :
        \/ \E p \in Places : Construct(t, p)
        \/ \E p, q \in Places : MoveInit(t, p, q)
        \/ \E p, q \in Places : AssignInit(t, p, q)
        \/ MoveBody(t)
        \/ \E p \in Places : Destroy(t, p)

SpecID == Init /\ [][NextID]_vars

\* ID objects that exist and are in no move that is still running
Settled ==
    {p \in Places : /\ life[p] = "live"
                    /\ \A t \in Threads : p # mv[t][1] /\ p # mv[t][2]}

\* The uids obtained by constructions, on all threads
MadeUids == UNION {{made[t][i] : i \in 1..Len(made[t])} : t \in Threads}

\* Distinct constructions obtained distinct, positive uids, increasing on
\* each thread, and no two objects hold the same valid uid
UniqueUids ==
    /\ \A t \in Threads : \A i \in 1..Len(made[t]) :
           /\ made[t][i] > 0
           /\ has_valid_id(made[t][i])
           /\ \A j \in 1..Len(made[t]) : i < j => made[t][i] < made[t][j]
    /\ \A t, u \in Threads : \A i \in 1..Len(made[t]), j \in 1..Len(made[u]) :
           made[t][i] = made[u][j] => t = u /\ i = j
    /\ \A p, q \in Settled :
           p # q /\ has_valid_id(uid_[p]) => uid_[p] # uid_[q]
    /\ \A p \in Settled : has_valid_id(uid_[p]) => uid_[p] \in MadeUids

\* A move hands the uid of the source to the target and leaves the source
\* with the invalid index
MoveTransfers ==
    \A t \in Threads :
        /\ (mv[t] = NoMove /\ mv'[t] # NoMove) =>
               uid_'[mv'[t][2]] = uid_[mv'[t][1]]
        /\ (mv[t] # NoMove /\ mv'[t] = NoMove) =>
               /\ uid_'[mv[t][2]] = uid_[mv[t][2]]
               /\ uid_'[mv[t][1]] = INVALID_INDEX
               /\ ~has_valid_id(uid_'[mv[t][1]])
               /\ life'[mv[t][2]] = "live"

\* C29 - ID uniqueness: the uids of ID objects constructed on any threads
\* under any interleaving are pairwise distinct and greater than 0, and
\* strictly increasing on one thread; a move transfers the uid to the target
\* and sets the source's uid to the invalid index, so two ID objects never
\* hold the same valid uid.
C29_UniqueIds ==
    /\ []UniqueUids
    /\ [][MoveTransfers]_vars

\* Both threads have constructed, and a moved-from and a moved-to object
\* exist
C29_Witness ==
    /\ \A t \in Threads : made[t] # << >>
    /\ \E p, q \in Settled :
           /\ uid_[p] = INVALID_INDEX
           /\ has_valid_id(uid_[q])
           /\ owner[p] = owner[q]
    /\ counter = MaxIds


\* ------------------------------------------------------------------------
\* Cell iteration (GridIterators.hpp, CellCentered.hpp): a range-based for
\* over InternalCells(mesh) or AllCells(mesh), one cell at a time
\* ------------------------------------------------------------------------
\* Largest number of real cells in one direction
MaxN == 3

\* CellCentered::GHOST_LAYERS
GHOST_LAYERS == 1

\* CellCentered::requiredSize
requiredSize(ni, nj) == (ni + 2 * GHOST_LAYERS) * (nj + 2 * GHOST_LAYERS)

\* CellCentered::getIndex (i_mem and j_mem are never negative here, so the
\* casts to Size keep their values)
getIndex(i, j, ni, nj) ==
    LET i_mem == i + GHOST_LAYERS
        j_mem == j + GHOST_LAYERS
        stride_x == ni + 2 * GHOST_LAYERS
    IN j_mem * stride_x + i_mem

\* The CellRange returned by InternalCells(mesh) and by AllCells(mesh)
InternalCells(ni, nj) ==
    [i_start_ |-> 0, i_end_ |-> ni, j_start_ |-> 0, j_end_ |-> nj]
AllCells(ni, nj) ==
    [i_start_ |-> -GHOST_LAYERS, i_end_ |-> ni + GHOST_LAYERS,
     j_start_ |-> -GHOST_LAYERS, j_end_ |-> nj + GHOST_LAYERS]

CellRange(in) ==
    IF in.range = "internal" THEN InternalCells(in.ni, in.nj)
    ELSE AllCells(in.ni, in.nj)

\* CellRange::begin(), CellRange::end(): the position of the iterator
RangeBegin(r) == [i_ |-> r.i_start_, j_ |-> r.j_start_]
RangeEnd(r) == [i_ |-> r.i_start_, j_ |-> r.j_end_]

\* CellIterator::operator++
Increment(it, r) ==
    IF it.i_ + 1 >= r.i_end_ THEN [i_ |-> r.i_start_, j_ |-> it.j_ + 1]
    ELSE [i_ |-> it.i_ + 1, j_ |-> it.j_]

\* CellIterator::operator!=
NotEqual(a, b) == a.i_ # b.i_ \/ a.j_ # b.j_

InitCells ==
    /\ InitObjects(DefaultConfig, 0)
    /\ input \in [f : {"cells"}, range : {"internal", "all"},
                  ni : 0..MaxN, nj : 0..MaxN]
    /\ output = NoOutput

\* auto it = range.begin();
CellsBegin ==
    /\ input.f = "cells"
    /\ output = NoOutput
    /\ output' = [it |-> RangeBegin(CellRange(input)), visited |-> << >>,
                  done |-> FALSE]
    /\ UNCHANGED <<objs, input>>

\* it != range.end(): the body sees *it, then ++it
CellsVisit ==
    /\ input.f = "cells"
    /\ output # NoOutput
    /\ ~output.done
    /\ NotEqual(output.it, RangeEnd(CellRange(input)))
    /\ output' = [it |-> Increment(output.it, CellRange(input)),
                  visited |-> Append(output.visited,
                                     [i |-> output.it.i_, j |-> output.it.j_,
                                      idx |-> getIndex(output.it.i_,
                                                       output.it.j_,
                                                       input.ni, input.nj)]),
                  done |-> FALSE]
    /\ UNCHANGED <<objs, input>>

\* it == range.end(): the loop is over
CellsEnd ==
    /\ input.f = "cells"
    /\ output # NoOutput
    /\ ~output.done
    /\ ~NotEqual(output.it, RangeEnd(CellRange(input)))
    /\ output' = [output EXCEPT !.done = TRUE]
    /\ UNCHANGED <<objs, input>>

NextCells == CellsBegin \/ CellsVisit \/ CellsEnd

SpecCells == InitCells /\ [][NextCells]_vars

CellsDone == input.f = "cells" /\ output # NoOutput /\ output.done

\* The real cell visited k-th (k from 1) in row-major order, i fastest
RowMajor(k, ni) ==
    LET i == (k - 1) % ni
        j == (k - 1) \div ni
    IN [i |-> i, j |-> j, idx |-> (j + 1) * (ni + 2) + (i + 1)]

\* C30 - Cell iteration coverage: for ni x nj real cells, ni >= 0 and
\* nj >= 0, iterating InternalCells ends after exactly ni * nj cells, each
\* (i, j) with 0 <= i < ni and 0 <= j < nj once in row-major order, with
\* linear index (j+1)*(ni+2)+(i+1) below the storage size (ni+2)*(nj+2);
\* iterating AllCells ends after exactly (ni+2)*(nj+2) cells with pairwise
\* distinct indices covering 0 .. (ni+2)*(nj+2)-1.
C30_CellCoverage ==
    CellsDone =>
        LET v == output.visited
            size == (input.ni + 2) * (input.nj + 2)
        IN IF input.range = "internal"
           THEN /\ Len(v) = input.ni * input.nj
                /\ \A k \in 1..Len(v) :
                       /\ v[k] = RowMajor(k, input.ni)
                       /\ v[k].i < input.ni /\ v[k].j < input.nj
                       /\ v[k].idx < size
                /\ size = requiredSize(input.ni, input.nj)
           ELSE /\ Len(v) = size
                /\ \A k, l \in 1..Len(v) : k # l => v[k].idx # v[l].idx
                /\ {v[k].idx : k \in 1..Len(v)} = 0..(size - 1)

====
